---- MODULE Spec2Model ----
(***************************************************************************)
(* Safe try-run execution engine of reposherlock: the planner              *)
(* (src/run/planner.ts), the executor (src/run/executor.ts) and the        *)
(* process helper execWithLimit (src/utils/exec.ts).                       *)
(*                                                                         *)
(* Strings are TLA+ strings where the code only compares them, and         *)
(* sequences of one-character strings where the code slices them.  The     *)
(* text of a process's output is the set of the phrases it contains, so    *)
(* that hay.includes(p) is p \in hay.  A nullable number is the empty set  *)
(* (null) or a singleton.                                                  *)
(***************************************************************************)
EXTENDS Integers, Sequences, FiniteSets, TLC

VARIABLES
  plan,              \* input.plan.executableCommands
  pc,                \* position of executeRunPlan
  sandbox,           \* the sandbox directory: "none", "exists", "removed", or "leftover"
                     \* (still on disk after a removal that failed)
  commandIndex,      \* loop variable (1-based here)
  runIndex,          \* let runIndex
  fallbackAttempted, \* let fallbackAttempted
  executions,        \* const executions
  pending,           \* what the try block ended with: "none", "result", "error"
  result,            \* the RunAttemptResult returned, or NoResult
  child,             \* the spawned process: "none", "spawnfail", "running", "exited-open"
                     \* (ended, its stdout/stderr pipes still held open by a descendant),
                     \* "exited" (ended, pipes at end of stream), "closed" ('close' emitted)
  procs,             \* plan indices of the command processes alive now
  exitCode,          \* exit code the process ended with (Null: by signal / none yet)
  timedOut,          \* let timedOut of execWithLimit
  timer,             \* the timeout timer: "none", "armed", "fired", "cleared"
  killTimer,         \* the inner SIGKILL timer: "none", "armed", "fired"
  signals,           \* signals delivered to the current child, in order
  resolved,          \* the ExecResult the promise resolved with, or Unresolved
  stdout,            \* let stdout of execWithLimit (phrases)
  stderr,            \* let stderr of execWithLimit (phrases)
  input,             \* BuildRunPlanInput with what the file system and PATH answer
  planned,           \* the commands buildRunPlan built, before sanitizeByPolicy
  runPlan,           \* the RunPlan buildRunPlan returned, or NoPlan
  maxOutputChars,    \* options.maxOutputChars of an execWithLimit call
  ostate,            \* that call's process: "idle", "spawnfail", "running", "closed", "failed"
  outBuf,            \* its let stdout, as characters
  errBuf,            \* its let stderr, as characters
  outAll,            \* every stdout chunk received so far, concatenated
  errAll,            \* every stderr chunk received so far, concatenated
  nChunks,           \* chunks received so far
  snippets,          \* stdoutSnippet / stderrSnippet of the CommandExecution, or NoSnippets
  verifyInput,       \* the VerificationInput of a verifyExecution call, or NoInput
  verdict,           \* the VerificationResult it returned, or NoVerdict
  files,             \* the file system loadTryRunPolicy reads: path -> content
  policyArgs,        \* rootDir and overridePath of a loadTryRunPolicy call, or NoInput
  policyPc,          \* position of loadTryRunPolicy: "idle", "loop", "done"
  candidate,         \* index into candidatePaths of the for loop
  reads,             \* the paths fs.readFile was called with, in order
  loaded,            \* what the call ended with: NoResult, a returned policy, or a throw
  recording,         \* input.onCommandEvent is a callback that notes every event it is
                     \* given (as the thinking panel of the pipeline does)
  events,            \* the events that callback was given, in order
  scheduler,         \* the config of an AnimationScheduler, or NoScheduler
  artificialDelayUsedMs, \* its private artificialDelayUsedMs
  enforced           \* its enforce* calls since construction or resetRun, in order:
                     \* actualMs, minVisibleMs and the EnforceResult's artificialDelayMs

execVars == <<plan, pc, sandbox, commandIndex, runIndex, fallbackAttempted,
              executions, pending, result, child, procs, exitCode, timedOut,
              timer, killTimer, signals, resolved, stdout, stderr>>
planVars == <<input, planned, runPlan>>
outVars == <<maxOutputChars, ostate, outBuf, errBuf, outAll, errAll, nChunks, snippets>>
verVars == <<verifyInput, verdict>>
polVars == <<files, policyArgs, policyPc, candidate, reads, loaded>>
evVars == <<recording, events>>
animVars == <<scheduler, artificialDelayUsedMs, enforced>>
vars == <<execVars, planVars, outVars, verVars, polVars, evVars, animVars>>

\* ---------------------------------------------------------------- bounds
MaxPlanLen == 3
MaxChunks == 3
MaxChunkLen == 2
MaxLimit == 3
MaxItems == 2
MaxProgress == 1
MaxObservedPlanLen == 2
MaxMs == 3
MaxActualMs == 1
MaxCalls == 3

\* ---------------------------------------------------------------- values
Null == {}
Num(n) == {n}
Unresolved == [state |-> "pending"]
NoResult == [kind |-> "none"]

\* String.prototype.toLowerCase / trim over the tokens the model uses.
Lower(s) ==
  CASE s = "NPM" -> "npm"
    [] s = "Npm" -> "npm"
    [] s = "Docker" -> "docker"
    [] s = "DOCKER" -> "docker"
    [] s = "PYTHON" -> "python"
    [] s = "--HELP" -> "--help"
    [] s = "-H" -> "-h"
    [] s = " --help " -> " --help "
    [] s = "CURL" -> "curl"
    [] s = "Curl" -> "curl"
    [] s = "NODE" -> "node"
    [] s = "Node" -> "node"
    [] s = "VITE" -> "vite"
    [] s = "Start" -> "start"
    [] s = "Cannot find module" -> "cannot find module"
    [] s = "EADDRINUSE" -> "eaddrinuse"
    [] s = "EACCES" -> "eacces"
    [] s = "NODE_ENV" -> "node_env"
    [] s = "Missing" -> "missing"
    [] OTHER -> s

Trim(s) ==
  CASE s = " --help " -> "--help"
    [] s = " NPM " -> "NPM"
    [] s = "  " -> ""
    [] s = " -h" -> "-h"
    [] OTHER -> s

\* Keywords a (lowercased) token contains / starts with: s.includes(k).
KeywordsIn(s) ==
  CASE s = "test" -> {"test"}
    [] s = "lint" -> {"lint"}
    [] s = "build" -> {"build"}
    [] s = "start" -> {"start"}
    [] s = "dev" -> {"dev"}
    [] s = "serve" -> {"serve"}
    [] s = "pytest" -> {"pytest", "test"}
    [] s = "prebuild-dev" -> {"build", "dev"}
    [] s = "restart" -> {"start"}
    [] OTHER -> {}

KeywordsAtStart(s) ==
  CASE s = "test" -> {"test"}
    [] s = "lint" -> {"lint"}
    [] s = "build" -> {"build"}
    [] s = "start" -> {"start"}
    [] s = "dev" -> {"dev"}
    [] s = "pytest" -> {"pytest"}
    [] OTHER -> {}

Range(s) == {s[i] : i \in 1..Len(s)}
ArgAt(args, i) == IF i <= Len(args) THEN args[i] ELSE ""

\* `${cmd} ${args.join(" ").toLowerCase()}`.includes(" " + k)
FullIncludes(args, k) == \E i \in 1..Len(args) : k \in KeywordsAtStart(Lower(args[i]))

inferStep(command, args) ==
  LET cmd == Lower(command)
      script == Lower(ArgAt(args, 2))
  IN IF cmd = "docker" /\ "build" \in Range(args) THEN "build"
     ELSE IF cmd = "docker" /\ "compose" \in Range(args) /\ "up" \in Range(args) THEN "start"
     ELSE IF cmd = "docker" /\ ArgAt(args, 1) = "run" THEN "start"
     ELSE IF cmd = "pytest" \/ FullIncludes(args, "pytest") THEN "test"
     ELSE IF cmd = "python" /\ ArgAt(args, 1) = "-m" /\ ArgAt(args, 2) = "pip" THEN "install"
     ELSE IF cmd \in {"npm", "bun", "pnpm", "yarn"} /\ ArgAt(args, 1) \in {"install", "ci"} THEN "install"
     ELSE IF cmd \in {"npm", "bun", "pnpm", "yarn"} /\ ArgAt(args, 1) = "test" THEN "test"
     ELSE IF cmd \in {"npm", "bun", "pnpm", "yarn"} /\ ArgAt(args, 1) = "run" /\ ArgAt(args, 2) # ""
       THEN IF "test" \in KeywordsIn(script) THEN "test"
            ELSE IF "lint" \in KeywordsIn(script) THEN "lint"
            ELSE IF "build" \in KeywordsIn(script) THEN "build"
            ELSE IF KeywordsIn(script) \cap {"start", "dev", "serve"} # {} THEN "start"
            ELSE "run"
     ELSE IF FullIncludes(args, "test") THEN "test"
     ELSE IF FullIncludes(args, "lint") THEN "lint"
     ELSE IF FullIncludes(args, "build") THEN "build"
     ELSE IF FullIncludes(args, "start") \/ FullIncludes(args, "dev") THEN "start"
     ELSE "run"

isHelpMode(args) ==
  LET normalized == {Lower(Trim(args[i])) : i \in 1..Len(args)}
  IN "--help" \in normalized \/ "-h" \in normalized

\* The commands the plans of the executor model are drawn from.
Catalogue ==
  { [command |-> "npm", args |-> <<"ci">>],
    [command |-> "npm", args |-> <<"run", "start">>],
    [command |-> "sh", args |-> <<"-c", "sleep 5", "start", "--help">>],
    [command |-> "npm", args |-> <<"run", "dev", "--", "--HELP">>] }

\* Entries with run = true, and one the planner did not authorize.
PlannedCommands ==
  { [command |-> c.command, args |-> c.args, run |-> TRUE, why |-> <<"fixture">>] : c \in Catalogue }
  \cup { [command |-> "npm", args |-> <<"run", "dev", "--", "--help">>, run |-> FALSE,
          why |-> <<"fixture">>] }

Plans == UNION { [1..n -> PlannedCommands] : n \in 0..MaxPlanLen }


\* ------------------------------------------------------- classifier, verifier
\* Output texts a command may print (phrases of stdout).
OutTexts == { {}, {"added", "localhost:3000"} }
\* How a process may end: with code 0 and either text, or with code 1 or by a
\* signal (code null) having printed nothing.
ExitOutcomes ==
  { [code |-> Num(0), text |-> t] : t \in OutTexts }
    \cup { [code |-> Num(1), text |-> {}], [code |-> Null, text |-> {}] }
\* String(error) of a failed spawn.
SpawnErrors == { {"enoent"}, {"eacces"} }

\* The classifier patterns a lowercased phrase contains: s.includes(k).
PatternsIn(s) ==
  CASE s = "process.env" -> {"process.env", "env"}
    [] s = "dotenv" -> {"dotenv", "env"}
    [] s = "node_env" -> {"env"}
    [] s = "module not found" -> {"module not found", "not found"}
    [] s = "command not found" -> {"command not found", "not found"}
    [] s = "test failed" -> {"test failed", "failed"}
    [] s = "assertion failed" -> {"assert", "failed"}
    [] OTHER -> {s}

\* `${stderr}\n${stdout}`.toLowerCase(), as the set of patterns it includes.
Haystack(err, out) == UNION { PatternsIn(Lower(p)) : p \in err \cup out }

IsMissingEnv(hay) ==
  \/ ("missing" \in hay /\ "env" \in hay)
  \/ "process.env" \in hay
  \/ ("must be set" \in hay /\ "env" \in hay)
  \/ ("dotenv" \in hay /\ "not found" \in hay)

IsMissingDeps(hay) ==
  hay \cap {"module not found", "cannot find module", "no such file or directory",
            "not installed", "command not found"} # {}

IsPortConflict(hay) ==
  hay \cap {"eaddrinuse", "address already in use", "port is already allocated"} # {}

IsTestFail(hay) ==
  \/ "test failed" \in hay
  \/ "failing tests" \in hay
  \/ ("assert" \in hay /\ "failed" \in hay)

IsPermission(hay) == hay \cap {"permission denied", "eacces"} # {}

\* (mutant: missing dependencies are looked for before a missing environment)
ClassifyDepsFirst(err, out) ==
  LET hay == Haystack(err, out)
  IN IF IsMissingDeps(hay) THEN "missing-deps"
     ELSE IF IsMissingEnv(hay) THEN "missing-env"
     ELSE IF IsPortConflict(hay) THEN "port-conflict"
     ELSE IF IsTestFail(hay) THEN "test-fail"
     ELSE IF IsPermission(hay) THEN "permission"
     ELSE "unknown"

classifyRunFailure(err, out) ==
  LET hay == Haystack(err, out)
  IN IF IsMissingEnv(hay) THEN "missing-env"
     ELSE IF IsMissingDeps(hay) THEN "missing-deps"
     ELSE IF IsPortConflict(hay) THEN "port-conflict"
     ELSE IF IsTestFail(hay) THEN "test-fail"
     ELSE IF IsPermission(hay) THEN "permission"
     ELSE "unknown"

\* (mutant: a failure of unknown class gets no fix)
FixesOnlyForKnownClass(kind) ==
  IF kind = "permission"
    THEN <<"Check file execution permissions and current user access.",
           "Avoid writing to protected paths in setup scripts.">>
    ELSE <<>>

probableFixesForFailure(kind) ==
  CASE kind = "missing-env" ->
         <<"Create a .env file from .env.example if available.",
           "Document required environment variables in README quickstart.">>
    [] kind = "missing-deps" ->
         <<"Install dependencies with the detected package manager before running scripts.",
           "Check lockfile consistency and runtime version requirements.">>
    [] kind = "port-conflict" ->
         <<"Change application port via environment variable or config.",
           "Stop existing process already bound to the target port.">>
    [] kind = "test-fail" ->
         <<"Run a narrowed test subset to isolate failures.",
           "Review stack trace and update brittle snapshots/fixtures.">>
    [] kind = "permission" ->
         <<"Check file execution permissions and current user access.",
           "Avoid writing to protected paths in setup scripts.">>
    [] OTHER ->
         <<"Inspect stderr snippet for root cause and reproduce locally with full logs.">>

\* The port detectPort extracts from a text, or Null.
detectPort(text) ==
  IF "localhost:3000" \in text THEN {"3000"}
  ELSE IF "listening on port 8080" \in text THEN {"8080"}
  ELSE IF "port 5173" \in text THEN {"5173"}
  ELSE Null

CodeText(code) ==
  IF code = Null THEN "null"
  ELSE IF code = Num(0) THEN "0"
  ELSE IF code = Num(1) THEN "1"
  ELSE IF code = Num(-1) THEN "-1"
  ELSE "n"

Verdict(s, e) == [status |-> s, evidence |-> e]

\* (mutant: a failure is always reported by its exit code)
TimeoutUnnamed(in) ==
  IF ~in.success
    THEN Verdict("failed", <<"command failed with exit code ", CodeText(in.exitCode),
                             " (", in.classification, ")">>)
    ELSE Verdict("partial", <<"command exited successfully; no dedicated verifier for this step">>)

\* (mutant: a successful command gets no evidence)
EvidenceOnlyOnFailure(in) ==
  IF ~in.success
    THEN Verdict("failed", <<"command failed with exit code ", CodeText(in.exitCode),
                             " (", in.classification, ")">>)
    ELSE Verdict("partial", <<"">>)

\* in: step, helpMode, success, timedOut, exitCode, stdout, stderr, classification,
\* artifact (what detectBuildArtifact finds in the sandbox, or Null).
verifyExecution(in) ==
  LET combined == in.stderr \cup in.stdout
      port == IF detectPort(in.stdout) # Null THEN detectPort(in.stdout) ELSE detectPort(in.stderr)
  IN IF ~in.success THEN
       IF in.timedOut
         THEN Verdict("failed", <<"command timed out before verification could complete">>)
         ELSE Verdict("failed", <<"command failed with exit code ", CodeText(in.exitCode),
                                  " (", in.classification, ")">>)
     ELSE IF in.step = "start" /\ in.helpMode THEN
       Verdict("partial", <<"help output only; runtime startup was not verified">>)
     ELSE IF in.step = "install" THEN
       IF combined \cap {"installed", "added", "dependencies", "packages installed",
                         "up to date", "lockfile"} # {}
         THEN Verdict("verified", <<"dependency installation signal detected in logs">>)
         ELSE Verdict("partial", <<"exit code 0; install logs did not include strong dependency signal">>)
     ELSE IF in.step = "test" THEN
       IF combined \cap {"pass", "passed", "tests passed", "0 fail", "ran 3 tests"} # {}
         THEN Verdict("verified", <<"test pass signal detected in logs">>)
         ELSE Verdict("partial", <<"exit code 0; test pass markers were not confidently detected">>)
     ELSE IF in.step = "build" THEN
       IF in.artifact # Null
         THEN Verdict("verified", <<"build artifact detected: ">> \o
                                    <<CHOOSE a \in in.artifact : TRUE>>)
       ELSE IF combined \cap {"built", "compiled", "bundle", "bundled", "generated", "transpil"} # {}
         THEN Verdict("partial", <<"build-like log signal detected, but artifact verification was inconclusive">>)
         ELSE Verdict("partial", <<"exit code 0; no build artifact or strong build log signal detected">>)
     ELSE IF in.step = "start" THEN
       IF port # Null
         THEN Verdict("verified", <<"listening signal detected on port ">> \o
                                    <<CHOOSE p \in port : TRUE>>)
       ELSE IF combined \cap {"listening", "ready", "started", "running on", "server started"} # {}
         THEN Verdict("partial", <<"startup-like log signal detected without explicit port evidence">>)
         ELSE Verdict("partial", <<"exit code 0; no listening/ready signal was detected">>)
     ELSE IF in.step = "lint" THEN
       IF combined \cap {"0 errors", "no issues", "lint passed"} # {}
         THEN Verdict("verified", <<"lint success signal detected in logs">>)
         ELSE Verdict("partial", <<"exit code 0; lint success markers were not clearly detected">>)
     ELSE Verdict("partial", <<"command exited successfully; no dedicated verifier for this step">>)


\* ------------------------------------------------------------------ executor
Sentence(t) == [text |-> t, command |-> "", args |-> <<>>]

\* if (!cmd.run) continue;  (mutant: the run flag is not looked at)
SkipsNothing(cmd) == FALSE
Skips(cmd) == ~cmd.run

\* First plan index >= i the loop does not skip; Len + 1 when there is none.
RECURSIVE NextRunnable(_, _)
NextRunnable(cmds, i) ==
  IF i > Len(cmds) THEN Len(cmds) + 1
  ELSE IF Skips(cmds[i]) THEN NextRunnable(cmds, i + 1)
  ELSE i

\* commandIndex += 1  (mutant: the same entry is tried again)
SameIndex(i) == i
NextIndex(i) == i + 1

\* (mutant: any later runnable entry counts as a fallback)
FallbackAnyLater(step, helpMode, tOut, index, commands) ==
  \E j \in (index + 1)..Len(commands) : commands[j].run

shouldContinueWithFallback(step, helpMode, tOut, index, commands) ==
  /\ step = "start"
  /\ helpMode
  /\ tOut
  /\ \E j \in (index + 1)..Len(commands) :
       /\ commands[j].run
       /\ inferStep(commands[j].command, commands[j].args) = "start"
       /\ isHelpMode(commands[j].args)

\* (mutant: help mode is not looked at)
SummaryIgnoresHelpMode(execs) ==
  LET starts == {i \in 1..Len(execs) : execs[i].step = "start"}
  IN IF starts = {} THEN Sentence("Run attempt completed successfully for selected commands.")
     ELSE LET startExecution == execs[CHOOSE i \in starts : \A j \in starts : i <= j]
          IN IF startExecution.verificationStatus = "verified"
               THEN Sentence("Run attempt completed successfully; startup verification signal was detected.")
             ELSE Sentence("Run attempt completed successfully; startup signal was not strongly verified.")

buildSuccessSummary(execs) ==
  LET starts == {i \in 1..Len(execs) : execs[i].step = "start"}
  IN IF starts = {} THEN Sentence("Run attempt completed successfully for selected commands.")
     ELSE LET startExecution == execs[CHOOSE i \in starts : \A j \in starts : i <= j]
          IN IF startExecution.helpMode
               THEN Sentence("Run attempt completed successfully; start command ran in help mode only (startup not verified).")
             ELSE IF startExecution.verificationStatus = "verified"
               THEN Sentence("Run attempt completed successfully; startup verification signal was detected.")
             ELSE Sentence("Run attempt completed successfully; startup signal was not strongly verified.")

\* (mutant: the fallback flag alone decides, whatever the final execution is)
RecoveredIgnoringLast(fb, execs) == fb

recoveredAfterFallback(fb, execs) ==
  /\ fb
  /\ \E i \in 1..Len(execs) : execs[i].classification # "success"
  /\ Len(execs) > 0
  /\ execs[Len(execs)].classification = "success"

\* Lines 182-204: the RunAttemptResult built after the loop.
BuildResult(fb, execs) ==
  LET failedIdx == {i \in 1..Len(execs) : execs[i].classification # "success"}
      attempted == Len(execs) > 0
  IN [kind |-> "returned",
      attempted |-> attempted,
      executions |-> execs,
      summary |->
        IF ~attempted THEN Sentence("No commands executed in sandbox.")
        ELSE IF recoveredAfterFallback(fb, execs)
          THEN Sentence("Run attempt recovered after start timeout via fallback command.")
        ELSE IF failedIdx # {}
          THEN LET failed == execs[CHOOSE i \in failedIdx : \A j \in failedIdx : j <= i]
               IN [text |-> "Run attempt failed at", command |-> failed.command,
                   args |-> failed.args]
        ELSE buildSuccessSummary(execs)]

Thrown == [kind |-> "thrown", attempted |-> FALSE, executions |-> <<>>, summary |-> Sentence("")]

\* Line 43: const totalRunnable = runnable.length
TotalRunnable(commands) == Cardinality({i \in 1..Len(commands) : commands[i].run})

\* An event handed to input.onCommandEvent (its type, index and total).
Event(type, index, total) == [type |-> type, index |-> index, total |-> total]

\* input.onCommandEvent?.(...) for each event of es, in order.
Emit(es) == IF recording THEN events \o es ELSE events

\* No callback keeps events.
EvIdle ==
  /\ recording = FALSE
  /\ events = <<>>

\* The call is given the callback that keeps every event.
EvRecording ==
  /\ recording = TRUE
  /\ events = <<>>

ExecInitOn(plans) ==
  /\ plan \in plans
  /\ pc = "entry"
  /\ sandbox = "none"
  /\ commandIndex = 0
  /\ runIndex = 0
  /\ fallbackAttempted = FALSE
  /\ executions = <<>>
  /\ pending = "none"
  /\ result = NoResult
  /\ child = "none"
  /\ procs = {}
  /\ exitCode = Null
  /\ timedOut = FALSE
  /\ timer = "none"
  /\ killTimer = "none"
  /\ signals = <<>>
  /\ resolved = Unresolved
  /\ stdout = {}
  /\ stderr = {}

ExecInit == ExecInitOn(Plans)

\* The plans of the runs whose events are kept.
ObservedPlans == UNION { [1..n -> PlannedCommands] : n \in 0..MaxObservedPlanLen }

procVars == <<child, procs, exitCode, timedOut, timer, killTimer, signals, resolved, stdout, stderr>>
loopVars == <<commandIndex, runIndex, fallbackAttempted, executions>>

\* Lines 31-38: the plan holds no command at all.
EarlyReturn ==
  /\ pc = "entry"
  /\ Len(plan) = 0
  /\ result' = [kind |-> "returned", attempted |-> FALSE, executions |-> <<>>,
                summary |-> Sentence("No executable commands selected by planner.")]
  /\ pc' = "done"
  /\ UNCHANGED <<plan, sandbox, pending, loopVars, procVars>>
  /\ UNCHANGED <<planVars, outVars, verVars, polVars, evVars, animVars>>

\* Line 40: fs.mkdtemp, outside the try block; it creates the directory or throws.
Mkdtemp ==
  /\ pc = "entry"
  /\ Len(plan) # 0
  /\ \/ /\ sandbox' = "exists"
        /\ pc' = "copy"
        /\ UNCHANGED result
     \/ /\ result' = Thrown
        /\ pc' = "done"
        /\ UNCHANGED sandbox
  /\ UNCHANGED <<plan, pending, loopVars, procVars>>
  /\ UNCHANGED <<planVars, outVars, verVars, polVars, evVars, animVars>>

\* Lines 48-63: copyDirRecursive, then the loop starts at the first entry.
CopyRepo ==
  /\ pc = "copy"
  /\ \/ /\ commandIndex' = 1
        /\ pc' = IF NextRunnable(plan, 1) <= Len(plan) THEN "loop" ELSE "summary"
        /\ UNCHANGED pending
     \/ /\ pending' = "error"
        /\ pc' = "finally"
        /\ UNCHANGED commandIndex
  /\ UNCHANGED <<plan, sandbox, result, runIndex, fallbackAttempted, executions, procVars>>
  /\ UNCHANGED <<planVars, outVars, verVars, polVars, evVars, animVars>>

\* The await of execWithLimit lets the loop go on (mutant: it does not wait).
AwaitSkipped == TRUE
AwaitDone == resolved # Unresolved

\* Lines 63-109 and exec.ts 26-58: skip to the next entry with run = true, emit the
\* start event, spawn the process and arm the timeout timer.  The callback or spawn
\* may throw; a failed spawn is reported by an 'error' event later.
StartCommand ==
  /\ pc = "loop"
  /\ LET i == NextRunnable(plan, commandIndex)
     IN /\ i <= Len(plan)
        /\ \/ /\ commandIndex' = i
              /\ runIndex' = runIndex + 1
              /\ \E ok \in BOOLEAN :
                   /\ child' = IF ok THEN "running" ELSE "spawnfail"
                   /\ procs' = IF ok THEN procs \cup {i} ELSE procs
              /\ exitCode' = Null
              /\ timedOut' = FALSE
              /\ timer' = "armed"
              /\ killTimer' = "none"
              /\ signals' = <<>>
              /\ resolved' = Unresolved
              /\ stdout' = {}
              /\ stderr' = {}
              /\ pc' = "await"
              /\ UNCHANGED pending
           \/ /\ pending' = "error"
              /\ pc' = "finally"
              /\ UNCHANGED <<commandIndex, runIndex, procVars>>
  /\ events' = Emit(<<Event("start", runIndex + 1, TotalRunnable(plan))>>)
  /\ UNCHANGED <<plan, sandbox, result, fallbackAttempted, executions>>
  /\ UNCHANGED <<planVars, outVars, verVars, polVars, recording, animVars>>

\* The process ends: by itself with a code, or killed by a signal (code null).
\* SIGTERM may be handled or ignored; SIGKILL cannot.  The process is spawned with
\* stdio ["ignore", "pipe", "pipe"] and signalled alone (exec.ts 32-37, 56-57): a
\* descendant that inherited the pipes outlives it and keeps them open.
ChildExit ==
  /\ child = "running"
  /\ \E o \in ExitOutcomes :
       /\ "SIGKILL" \in Range(signals) => o.code = Null
       /\ exitCode' = o.code
       /\ stdout' = o.text
  /\ \E inherited \in BOOLEAN : child' = IF inherited THEN "exited-open" ELSE "exited"
  /\ procs' = procs \ {commandIndex}
  /\ UNCHANGED <<plan, pc, sandbox, pending, result, loopVars, timedOut, timer, killTimer,
                 signals, resolved, stderr>>
  /\ UNCHANGED <<planVars, outVars, verVars, polVars, evVars, animVars>>

\* child.kill(signal): the signals delivered after the call.  It signals a process
\* that is still running and does nothing otherwise.  (mutant: it signals
\* whatever the state of the process)
KillAlways(delivered, state, signal) == Append(delivered, signal)
kill(delivered, state, signal) ==
  IF state = "running" THEN Append(delivered, signal) ELSE delivered

\* The last descendant holding the pipes ends, if it ever does: end of stream.
StreamsEnd ==
  /\ child = "exited-open"
  /\ child' = "exited"
  /\ UNCHANGED <<plan, pc, sandbox, pending, result, loopVars, procs, exitCode, timedOut,
                 timer, killTimer, signals, resolved, stdout, stderr>>
  /\ UNCHANGED <<planVars, outVars, verVars, polVars, evVars, animVars>>

\* exec.ts 54-58: the timeout timer fires unless finalize cleared it.
TimerFire ==
  /\ timer = "armed"
  /\ child \in {"running", "exited-open", "exited"}
  /\ timedOut' = TRUE
  /\ timer' = "fired"
  /\ killTimer' = "armed"
  /\ signals' = kill(signals, child, "SIGTERM")
  /\ UNCHANGED <<plan, pc, sandbox, pending, result, loopVars, child, procs, exitCode,
                 resolved, stdout, stderr>>
  /\ UNCHANGED <<planVars, outVars, verVars, polVars, evVars, animVars>>

\* exec.ts 57: the inner timer, 1.5 s after the first.
KillTimerFire ==
  /\ killTimer = "armed"
  /\ killTimer' = "fired"
  /\ signals' = kill(signals, child, "SIGKILL")
  /\ UNCHANGED <<plan, pc, sandbox, pending, result, loopVars, child, procs, exitCode,
                 timedOut, timer, resolved, stdout, stderr>>
  /\ UNCHANGED <<planVars, outVars, verVars, polVars, evVars, animVars>>

finalize(code) ==
  /\ timer' = IF timer = "armed" THEN "cleared" ELSE timer
  /\ resolved' = IF resolved = Unresolved
                   THEN [state |-> "done", exitCode |-> code, timedOut |-> timedOut,
                         stdout |-> stdout, stderr |-> stderr']
                   ELSE resolved

\* exec.ts 79: 'close' after the process has exited and its streams are closed.
ChildClose ==
  /\ child = "exited"
  /\ child' = "closed"
  /\ stderr' = stderr
  /\ finalize(exitCode)
  /\ UNCHANGED <<plan, pc, sandbox, pending, result, loopVars, procs, exitCode, timedOut,
                 killTimer, signals, stdout>>
  /\ UNCHANGED <<planVars, outVars, verVars, polVars, evVars, animVars>>

\* exec.ts 76: the exit code a failed spawn is reported with.  (mutant: none)
SpawnFailureUncoded == Null
SpawnFailureCode == Num(-1)

\* exec.ts 74-77: 'error' of a spawn that failed; no process exists.
ChildError ==
  /\ child = "spawnfail"
  /\ child' = "closed"
  /\ \E e \in SpawnErrors : stderr' = stderr \cup e
  /\ finalize(SpawnFailureCode)
  /\ UNCHANGED <<plan, pc, sandbox, pending, result, loopVars, procs, exitCode, timedOut,
                 killTimer, signals, stdout>>
  /\ UNCHANGED <<planVars, outVars, verVars, polVars, evVars, animVars>>

\* Lines 111-180: the loop resumes with the ExecResult, appends the execution and
\* decides to go on, to fall back or to stop.
RecordExecution ==
  /\ pc = "await"
  /\ AwaitDone
  /\ LET cmd == plan[commandIndex]
         r == IF resolved = Unresolved
                THEN [state |-> "done", exitCode |-> exitCode, timedOut |-> timedOut,
                      stdout |-> stdout, stderr |-> stderr]
                ELSE resolved
         step == inferStep(cmd.command, cmd.args)
         helpMode == isHelpMode(cmd.args)
         success == ~r.timedOut /\ r.exitCode = Num(0)
         classification == IF success THEN "success" ELSE classifyRunFailure(r.stderr, r.stdout)
         probableFixes == IF classification = "success" THEN <<>>
                          ELSE probableFixesForFailure(classification)
     IN \E artifact \in IF step = "build" /\ success THEN {Null, {"dist/"}} ELSE {Null} :
        LET verification == verifyExecution(
              [step |-> step, helpMode |-> helpMode, success |-> success,
               timedOut |-> r.timedOut, exitCode |-> r.exitCode, stdout |-> r.stdout,
               stderr |-> r.stderr, classification |-> classification,
               artifact |-> artifact])
            goOn == success \/ shouldContinueWithFallback(step, helpMode, r.timedOut,
                                                          commandIndex, plan)
        IN /\ executions' = Append(executions,
                [planIndex |-> commandIndex,
                 command |-> cmd.command, args |-> cmd.args, step |-> step,
                 helpMode |-> helpMode, exitCode |-> r.exitCode, timedOut |-> r.timedOut,
                 \* clamp(result.stdout / stderr, maxOutputChars), with a limit that
                 \* keeps the phrases (the clamping itself is modelled with the buffers)
                 stdoutSnippet |-> r.stdout, stderrSnippet |-> r.stderr,
                 classification |-> classification,
                 verificationStatus |-> verification.status,
                 verificationEvidence |-> verification.evidence,
                 probableFixes |-> probableFixes])
           /\ \/ /\ fallbackAttempted' = (fallbackAttempted \/ (~success /\ goOn))
                 /\ commandIndex' = IF goOn THEN NextIndex(commandIndex) ELSE commandIndex
                 /\ pc' = IF goOn /\ NextRunnable(plan, NextIndex(commandIndex)) <= Len(plan)
                            THEN "loop" ELSE "summary"
                 /\ events' = Emit(<<Event("end", runIndex, TotalRunnable(plan))>> \o
                                   IF ~success /\ goOn
                                     THEN <<Event("fallback", runIndex, TotalRunnable(plan))>>
                                     ELSE <<>>)
                 /\ UNCHANGED pending
              \* the onCommandEvent callback of the end event throws
              \/ /\ pending' = "error"
                 /\ pc' = "finally"
                 /\ events' = Emit(<<Event("end", runIndex, TotalRunnable(plan))>>)
                 /\ UNCHANGED <<fallbackAttempted, commandIndex>>
  \* The ExecResult is consumed; the closure of this execWithLimit call is dead (its
  \* inner timer, if still armed, can only kill() a closed process, which does nothing).
  /\ child' = "none"
  /\ exitCode' = Null
  /\ timedOut' = FALSE
  /\ timer' = "none"
  /\ killTimer' = "none"
  /\ signals' = <<>>
  /\ resolved' = Unresolved
  /\ stdout' = {}
  /\ stderr' = {}
  /\ UNCHANGED <<plan, sandbox, result, runIndex, procs>>
  /\ UNCHANGED <<planVars, outVars, verVars, polVars, recording, animVars>>

\* Lines 104-108: the interval of the progress events is cleared in the finally
\* that follows the await of execWithLimit, in the same turn of the event loop
\* as the resolution.  (mutant: it is never cleared)
ProgressTimerLeftArmed == pc \in {"await", "loop", "summary"} /\ runIndex > 0
ProgressTimerArmed == pc = "await" /\ resolved = Unresolved

\* Progress events of the command that is running, so far.
Ticks == Len(SelectSeq(events, LAMBDA e : e.type = "progress" /\ e.index = runIndex))

\* Lines 83-97: the interval set after the start event fires (every 5 s) and hands
\* a progress event to the callback.
Progress ==
  /\ recording
  /\ ProgressTimerArmed
  /\ Ticks < MaxProgress
  /\ events' = Emit(<<Event("progress", runIndex, TotalRunnable(plan))>>)
  /\ UNCHANGED <<execVars, planVars, outVars, verVars, polVars, recording, animVars>>

\* Lines 182-204: the result is built and the function is about to return it.
Summarize ==
  /\ pc = "summary"
  /\ result' = BuildResult(fallbackAttempted, executions)
  /\ pending' = "result"
  /\ pc' = "finally"
  /\ UNCHANGED <<plan, sandbox, loopVars, procVars>>
  /\ UNCHANGED <<planVars, outVars, verVars, polVars, evVars, animVars>>

\* .catch(() => undefined): what leaves the finally block when the removal succeeded
\* (ok) or failed.  (mutant: a failed removal is rethrown)
RmFailureRethrown(ok, pend) == IF ok THEN pend ELSE "error"
AfterRemoval(ok, pend) == pend

\* Lines 205-207: fs.rm(sandboxDir, {recursive, force}) removes the directory or
\* fails; then the pending result is returned or the pending error thrown.
Cleanup ==
  /\ pc = "finally"
  /\ \E ok \in BOOLEAN :
       /\ sandbox' = IF ok THEN "removed" ELSE "leftover"
       /\ result' = IF AfterRemoval(ok, pending) = "error" THEN Thrown ELSE result
  /\ pc' = "done"
  /\ UNCHANGED <<plan, pending, loopVars, procVars>>
  /\ UNCHANGED <<planVars, outVars, verVars, polVars, evVars, animVars>>

\* No executeRunPlan call is in progress.
ExecIdle ==
  /\ plan = <<>>
  /\ pc = "idle"
  /\ sandbox = "none"
  /\ commandIndex = 0
  /\ runIndex = 0
  /\ fallbackAttempted = FALSE
  /\ executions = <<>>
  /\ pending = "none"
  /\ result = NoResult
  /\ child = "none"
  /\ procs = {}
  /\ exitCode = Null
  /\ timedOut = FALSE
  /\ timer = "none"
  /\ killTimer = "none"
  /\ signals = <<>>
  /\ resolved = Unresolved
  /\ stdout = {}
  /\ stderr = {}

\* ------------------------------------------------------------------- planner
NoPlan == [strategy |-> "unset", proposedCommands |-> <<>>, executableCommands |-> <<>>]
NoInput == [kind |-> "none"]

\* A script body is the sequence of its whitespace runs (" ") and words.
\* scriptBody.trim().split(/\s+/)
Words(body) == SelectSeq(body, LAMBDA t : t # " ")

\* /^[A-Za-z_][A-Za-z0-9_]*=.*/.test(part)
IsEnvAssignment(part) == part \in {"FOO=bar", "NODE_ENV=prod", "_X="}

RECURSIVE FirstCommandWord(_)
FirstCommandWord(parts) ==
  IF parts = <<>> THEN Null
  ELSE IF IsEnvAssignment(Head(parts)) THEN FirstCommandWord(Tail(parts))
  ELSE {Lower(Head(parts))}

\* The entrypoint, or Null.
extractScriptEntrypoint(scriptBody) == FirstCommandWord(Words(scriptBody))

LowerSet(xs) == {Lower(x) : x \in xs}

\* (mutant: the allowlist is consulted before the blocklist)
AllowBeforeBlock(scriptBody, bunAvailable, npmAvailable, policy) ==
  LET entrypoint == extractScriptEntrypoint(scriptBody)
  IN IF entrypoint = Null THEN [safe |-> FALSE, reason |-> <<"empty script command">>]
     ELSE LET e == CHOOSE x \in entrypoint : TRUE
          IN IF e \in LowerSet(policy.allowedScriptEntrypoints)
               THEN [safe |-> TRUE, reason |-> <<"allowlisted entrypoint">>]
             ELSE [safe |-> FALSE, reason |-> <<"entrypoint '", e, "' is not allowlisted">>]

evaluateScriptSafety(scriptBody, bunAvailable, npmAvailable, policy) ==
  LET entrypoint == extractScriptEntrypoint(scriptBody)
  IN IF entrypoint = Null THEN [safe |-> FALSE, reason |-> <<"empty script command">>]
     ELSE LET e == CHOOSE x \in entrypoint : TRUE
          IN IF e = "bun" /\ ~bunAvailable
               THEN [safe |-> FALSE, reason |-> <<"script requires bun but bun is unavailable">>]
             ELSE IF e = "npm" /\ ~npmAvailable
               THEN [safe |-> FALSE, reason |-> <<"script requires npm but npm is unavailable">>]
             ELSE IF e \in LowerSet(policy.blockedScriptEntrypoints)
               THEN [safe |-> FALSE, reason |-> <<"entrypoint '", e, "' is blocklisted">>]
             ELSE IF e \notin LowerSet(policy.allowedScriptEntrypoints)
               THEN [safe |-> FALSE, reason |-> <<"entrypoint '", e, "' is not allowlisted">>]
             ELSE [safe |-> TRUE, reason |-> <<"allowlisted entrypoint">>]

Cmd(c, a, r, w) == [command |-> c, args |-> a, run |-> r, why |-> w]

\* (mutant: the command is compared as written, without lowercasing the policy)
SanitizeCaseSensitive(commands, policy) ==
  [i \in 1..Len(commands) |->
     IF commands[i].command \notin policy.allowedCommands
       THEN [commands[i] EXCEPT !.run = FALSE,
                                !.why = @ \o <<"; command blocked by safe-exec policy">>]
       ELSE commands[i]]

sanitizeByPolicy(commands, policy) ==
  LET allowedCommands == LowerSet(policy.allowedCommands)
  IN [i \in 1..Len(commands) |->
        IF Lower(commands[i].command) \notin allowedCommands
          THEN [commands[i] EXCEPT !.run = FALSE,
                                   !.why = @ \o <<"; command blocked by safe-exec policy">>]
          ELSE commands[i]]

formatPlanned(cmd) == <<cmd.command>> \o cmd.args
FormatAll(cmds) == [i \in 1..Len(cmds) |-> formatPlanned(cmds[i])]

\* slice(0, 3)
MaxSelectedScripts == 3
Take(seq, n) == SubSeq(seq, 1, IF Len(seq) < n THEN Len(seq) ELSE n)

\* (mutant: a key of the script map is enough, whatever its body)
ScriptDeclared(scripts, name) == name \in DOMAIN scripts

\* scripts[name] is truthy: the script exists and its body is not the empty string.
HasScript(scripts, name) == name \in DOMAIN scripts /\ scripts[name] # <<>>

\* Line 63: the fast runner needs its lockfile and its binary, else the fallback runner.
Runner(hasBun, bunAvailable) == IF hasBun /\ bunAvailable THEN "bun" ELSE "npm"

\* (mutant: every script of a CLI project gets the help tail)
TailForEveryScript(isCliProject, name) ==
  IF isCliProject THEN <<"--", "--help">> ELSE <<>>

\* Lines 75-76: the help-probe tail of a script command.
ScriptArgsTail(isCliProject, name) ==
  IF isCliProject /\ name \in {"start", "dev"} THEN <<"--", "--help">> ELSE <<>>

\* Lines 19-47.
DockerCommands(in) ==
  LET dockerAvailable == in.avail.docker
  IN IF in.keyFiles.dockerCompose
       THEN << Cmd("docker", <<"compose", "up", "--build", "--abort-on-container-exit">>,
                   dockerAvailable,
                   IF dockerAvailable
                     THEN <<"docker compose detected and docker binary available">>
                     ELSE <<"docker compose detected but docker binary missing">>) >>
       ELSE << Cmd("docker", <<"build", "-t", "reposherlock-target", ".">>, dockerAvailable,
                   IF dockerAvailable THEN <<"dockerfile detected">>
                   ELSE <<"dockerfile detected but docker missing">>),
               Cmd("docker", <<"run", "--rm", "reposherlock-target">>, dockerAvailable,
                   IF dockerAvailable THEN <<"run built image">> ELSE <<"docker missing">>) >>

\* Lines 58-133.  in.package is what loadPackageJson returns (Null: unreadable).
NodeCommands(in) ==
  LET packageInfo == in.package
      scripts == IF packageInfo = Null THEN <<>> ELSE (CHOOSE x \in packageInfo : TRUE).scripts
      hasBun == in.keyFiles.bunLock
      bunAvailable == in.avail.bun
      npmAvailable == in.avail.npm
      runner == Runner(hasBun, bunAvailable)
      installArgs == IF runner = "bun" THEN <<"install">> ELSE <<"ci">>
      selectedScripts ==
        Take(SelectSeq(in.policy.scriptPriority, LAMBDA name : HasScript(scripts, name)),
             MaxSelectedScripts)
      isCliProject == IF packageInfo = Null THEN FALSE ELSE (CHOOSE x \in packageInfo : TRUE).bin
      ScriptCommand(name) ==
        LET scriptSafety == evaluateScriptSafety(scripts[name], bunAvailable, npmAvailable,
                                                 in.policy)
            scriptArgsTail == ScriptArgsTail(isCliProject, name)
            why == IF scriptSafety.safe
                     THEN <<"package.json contains script '", name, "'">> \o
                          (IF Len(scriptArgsTail) > 0 THEN <<" (CLI help mode)">> ELSE <<>>)
                     ELSE <<"script '", name, "' blocked by safe policy: ">> \o scriptSafety.reason
        IN IF runner = "bun"
             THEN Cmd("bun", <<"run", name>> \o scriptArgsTail,
                      bunAvailable /\ scriptSafety.safe, why)
             ELSE Cmd("npm", <<"run", name>> \o scriptArgsTail,
                      npmAvailable /\ scriptSafety.safe, why)
      scriptCommands == [i \in 1..Len(selectedScripts) |-> ScriptCommand(selectedScripts[i])]
      installRun == IF runner = "bun" THEN bunAvailable ELSE npmAvailable
      commands ==
        << Cmd(runner, installArgs, installRun,
               IF runner = "bun"
                 THEN IF bunAvailable THEN <<"bun lock or bun preference detected">>
                      ELSE <<"bun selected but unavailable">>
                 ELSE IF npmAvailable THEN <<"npm fallback for Node project">>
                      ELSE <<"npm unavailable">>) >> \o scriptCommands
  IN IF Len(commands) = 1
       THEN Append(commands, Cmd(runner, <<"run", "start">>, FALSE,
                                 <<"no preferred scripts found">>))
       ELSE commands

\* (mutant: the install command runs whenever python is on the PATH)
PythonInstallRuns(in) ==
  LET pythonAvailable == in.avail.python
  IN IF in.tryRunPython
       THEN IF Len(in.keyFiles.entrypoints) > 0
              THEN << Cmd("python", <<in.keyFiles.entrypoints[1]>>, pythonAvailable,
                          <<"python entrypoint guessed from repository structure">>) >>
              ELSE << Cmd("pytest", <<>>, pythonAvailable,
                          <<"no clear entrypoint; testing path attempted">>) >>
       ELSE << Cmd("python", <<"-m", "pip", "install", "-r", "requirements.txt">>,
                   pythonAvailable, <<"install requirements">>) >>

\* Lines 144-170.
PythonCommands(in) ==
  LET pythonAvailable == in.avail.python
  IN IF in.tryRunPython
       THEN IF Len(in.keyFiles.entrypoints) > 0
              THEN << Cmd("python", <<in.keyFiles.entrypoints[1]>>, pythonAvailable,
                          <<"python entrypoint guessed from repository structure">>) >>
              ELSE << Cmd("pytest", <<>>, pythonAvailable,
                          <<"no clear entrypoint; testing path attempted">>) >>
       ELSE << Cmd("python", <<"-m", "pip", "install", "-r", "requirements.txt">>, FALSE,
                   <<"Python run disabled unless --try-run-python is explicitly set">>) >>

\* (mutant: a package manifest is looked for before a container descriptor)
PackageFirst(in) ==
  IF in.keyFiles.packageJson THEN "node-bun"
  ELSE IF in.keyFiles.dockerCompose \/ in.keyFiles.dockerfile THEN "docker"
  ELSE IF in.keyFiles.requirementsTxt \/ in.keyFiles.pyprojectToml THEN "python"
  ELSE "none"

\* Lines 19, 58, 143, 180: the order of the tests on the key files.
Strategy(in) ==
  IF in.keyFiles.dockerCompose \/ in.keyFiles.dockerfile THEN "docker"
  ELSE IF in.keyFiles.packageJson THEN "node-bun"
  ELSE IF in.keyFiles.requirementsTxt \/ in.keyFiles.pyprojectToml THEN "python"
  ELSE "none"

\* The commands of the chosen strategy before the sanitization pass.
PlannedFor(in) ==
  CASE Strategy(in) = "docker" -> DockerCommands(in)
    [] Strategy(in) = "node-bun" -> NodeCommands(in)
    [] Strategy(in) = "python" -> PythonCommands(in)
    [] OTHER -> <<>>

buildRunPlan(in) ==
  IF Strategy(in) = "none"
    THEN [strategy |-> "none", proposedCommands |-> <<>>, executableCommands |-> <<>>]
    ELSE [strategy |-> Strategy(in),
          proposedCommands |-> FormatAll(PlannedFor(in)),
          executableCommands |-> sanitizeByPolicy(PlannedFor(in), in.policy)]


K(dc, df, pj, bl, rq, pp, ep) ==
  [dockerCompose |-> dc, dockerfile |-> df, packageJson |-> pj, bunLock |-> bl,
   requirementsTxt |-> rq, pyprojectToml |-> pp, entrypoints |-> ep]

KeyFileChoices ==
  { K(FALSE, FALSE, FALSE, FALSE, FALSE, FALSE, <<>>),
    K(FALSE, TRUE, FALSE, FALSE, FALSE, FALSE, <<>>),
    K(TRUE, FALSE, FALSE, FALSE, FALSE, FALSE, <<>>),
    K(TRUE, TRUE, TRUE, FALSE, TRUE, FALSE, <<"main.py">>),
    K(FALSE, FALSE, TRUE, FALSE, FALSE, FALSE, <<>>),
    K(FALSE, FALSE, TRUE, TRUE, FALSE, FALSE, <<>>),
    K(FALSE, FALSE, TRUE, FALSE, TRUE, FALSE, <<"main.py">>),
    K(FALSE, FALSE, FALSE, FALSE, TRUE, FALSE, <<>>),
    K(FALSE, FALSE, FALSE, FALSE, TRUE, FALSE, <<"main.py", "app.py">>),
    K(FALSE, FALSE, FALSE, FALSE, FALSE, TRUE, <<>>) }

Availability == [docker : BOOLEAN, bun : BOOLEAN, npm : BOOLEAN, python : BOOLEAN]

Policy(prio, cmds, allowed, blocked) ==
  [scriptPriority |-> prio, allowedCommands |-> cmds,
   allowedScriptEntrypoints |-> allowed, blockedScriptEntrypoints |-> blocked]

Policies ==
  { Policy(<<"test", "lint", "build", "start", "dev">>,
           {"docker", "bun", "npm", "pnpm", "yarn", "make", "python", "pytest"},
           {"node", "npm", "bun", "vite"}, {"curl", "bash", "sh"}),
    Policy(<<"start", "build", "dev">>, {"NPM", "Docker"}, {"NODE", "vite"}, {"CURL"}),
    Policy(<<"dev", "start">>, {"npm", "bun"}, {"node", "curl"}, {"curl", "node"}),
    Policy(<<"test", "lint", "build", "start", "dev">>, {"make"},
           {"node", "npm", "bun", "vite"}, {"curl", "bash", "sh"}),
    Policy(<<"build", "test">>, {"bun", "pytest", "PYTHON"}, {"vite", "Curl"}, {"bash"}) }

Packages ==
  { Null,
    {[scripts |-> <<>>, bin |-> FALSE]},
    {[scripts |-> [start |-> <<"node", " ", "server.js">>,
                   build |-> <<"FOO=bar", " ", "NODE_ENV=prod", " ", "VITE", " ", "build">>,
                   test |-> <<"curl", " ", "example.sh">>],
      bin |-> FALSE]},
    {[scripts |-> [start |-> <<"node", " ", "server.js">>,
                   dev |-> <<" ", "Curl", " ", "example.sh", " ">>,
                   build |-> <<"vite", " ", "build">>],
      bin |-> TRUE]},
    {[scripts |-> [start |-> <<"NODE_ENV=prod">>, dev |-> <<" ">>, build |-> <<>>,
                   test |-> <<"FOO=bar", " ", "bash", " ", "run.sh">>],
      bin |-> TRUE]},
    {[scripts |-> [start |-> <<"bun", " ", "run", " ", "x">>,
                   dev |-> <<"npm", " ", "run", " ", "y">>,
                   test |-> <<"NODE", " ", "app.js">>,
                   lint |-> <<"bash", " ", "lint.sh">>],
      bin |-> TRUE]},
    {[scripts |-> [test |-> <<"node", " ", "t.js">>, lint |-> <<"node", " ", "l.js">>,
                   build |-> <<"vite", " ", "build">>, start |-> <<"node", " ", "s.js">>,
                   dev |-> <<"vite">>],
      bin |-> FALSE]} }

Inputs ==
  [keyFiles : KeyFileChoices, avail : Availability, tryRunPython : BOOLEAN,
   policy : Policies, package : Packages]

PlanInit ==
  /\ input \in Inputs
  /\ planned = <<>>
  /\ runPlan = NoPlan

PlanIdle ==
  /\ input = NoInput
  /\ planned = <<>>
  /\ runPlan = NoPlan

\* One call of buildRunPlan.
BuildRunPlan ==
  /\ input # NoInput
  /\ runPlan = NoPlan
  /\ planned' = PlannedFor(input)
  /\ runPlan' = buildRunPlan(input)
  /\ UNCHANGED input
  /\ UNCHANGED <<execVars, outVars, verVars, polVars, evVars, animVars>>

\* ------------------------------------------------- execWithLimit output buffers
Chars == {"a", "b"}
Chunks == UNION { [1..n -> Chars] : n \in 1..MaxChunkLen }
NoSnippets == [state |-> "none"]
\* String(error) of the 'error' event.
ErrorText == <<"E", "!">>

Min(a, b) == IF a < b THEN a ELSE b
\* value.slice(value.length - n) for 0 <= n <= value.length
Suffix(value, n) == SubSeq(value, Len(value) - n + 1, Len(value))

\* (mutant: the head of the value is kept)
KeepHead(value, limit) ==
  IF Len(value) <= limit THEN value ELSE SubSeq(value, 1, limit)

\* exec.ts 39-44, const trim.
trim(value, limit) ==
  IF Len(value) <= limit THEN value ELSE Suffix(value, limit)

\* executor.ts 233-238.
clamp(value, limit) ==
  IF Len(value) <= limit THEN value ELSE Suffix(value, limit)

IsSpace(c) == c \in {" ", "\n"}
RECURSIVE TrimStart(_)
TrimStart(v) == IF v # <<>> /\ IsSpace(Head(v)) THEN TrimStart(Tail(v)) ELSE v
RECURSIVE TrimEnd(_)
TrimEnd(v) == IF v # <<>> /\ IsSpace(v[Len(v)]) THEN TrimEnd(SubSeq(v, 1, Len(v) - 1)) ELSE v
\* String.prototype.trim
StrTrim(v) == TrimEnd(TrimStart(v))

OutInit ==
  /\ maxOutputChars \in 0..MaxLimit
  /\ ostate \in {"running", "spawnfail"}
  /\ outBuf = <<>>
  /\ errBuf = <<>>
  /\ outAll = <<>>
  /\ errAll = <<>>
  /\ nChunks = 0
  /\ snippets = NoSnippets

OutIdle ==
  /\ maxOutputChars = 0
  /\ ostate = "idle"
  /\ outBuf = <<>>
  /\ errBuf = <<>>
  /\ outAll = <<>>
  /\ errAll = <<>>
  /\ nChunks = 0
  /\ snippets = NoSnippets

\* exec.ts 46-48.
StdoutData ==
  /\ ostate = "running"
  /\ nChunks < MaxChunks
  /\ \E chunk \in Chunks :
       /\ outBuf' = trim(outBuf \o chunk, maxOutputChars)
       /\ outAll' = outAll \o chunk
  /\ nChunks' = nChunks + 1
  /\ UNCHANGED <<maxOutputChars, ostate, errBuf, errAll, snippets>>
  /\ UNCHANGED <<execVars, planVars, verVars, polVars, evVars, animVars>>

\* exec.ts 50-52.
StderrData ==
  /\ ostate = "running"
  /\ nChunks < MaxChunks
  /\ \E chunk \in Chunks :
       /\ errBuf' = trim(errBuf \o chunk, maxOutputChars)
       /\ errAll' = errAll \o chunk
  /\ nChunks' = nChunks + 1
  /\ UNCHANGED <<maxOutputChars, ostate, outBuf, outAll, snippets>>
  /\ UNCHANGED <<execVars, planVars, verVars, polVars, evVars, animVars>>

\* exec.ts 79 with executor.ts 137-138: 'close', then the snippets of the execution.
CloseToSnippets ==
  /\ ostate = "running"
  /\ ostate' = "closed"
  /\ snippets' = [state |-> "set",
                  stdoutSnippet |-> clamp(outBuf, maxOutputChars),
                  stderrSnippet |-> clamp(errBuf, maxOutputChars)]
  /\ UNCHANGED <<maxOutputChars, outBuf, errBuf, outAll, errAll, nChunks>>
  /\ UNCHANGED <<execVars, planVars, verVars, polVars, evVars, animVars>>

\* exec.ts 74-77 with executor.ts 137-138: 'error' of a failed spawn.
ErrorToSnippets ==
  /\ ostate = "spawnfail"
  /\ ostate' = "failed"
  /\ errBuf' = StrTrim(errBuf \o <<"\n">> \o ErrorText)
  /\ snippets' = [state |-> "set",
                  stdoutSnippet |-> clamp(outBuf, maxOutputChars),
                  stderrSnippet |-> clamp(errBuf', maxOutputChars)]
  /\ UNCHANGED <<maxOutputChars, outBuf, outAll, errAll, nChunks>>
  /\ UNCHANGED <<execVars, planVars, verVars, polVars, evVars, animVars>>

\* ------------------------------------------------------------- verifier alone
NoVerdict == [status |-> "none", evidence |-> <<>>]

Steps == {"install", "test", "build", "start", "lint", "run"}
ExitCodes == {Null, Num(0), Num(1), Num(-1)}
\* Texts a command may have printed: none, and one carrying each kind of signal.
LogTexts ==
  { {}, {"added"}, {"passed"}, {"compiled"}, {"localhost:3000"}, {"ready"},
    {"0 errors"}, {"permission denied"}, {"Missing"} }
\* Texts of the error stream: none, a port, and failure messages that carry the
\* patterns of one or of several failure classes.
ErrTexts ==
  { {}, {"port 5173"}, {"boom"}, {"NODE_ENV"},
    {"Cannot find module", "process.env"},
    {"EADDRINUSE", "command not found"},
    {"address already in use", "failing tests"},
    {"assertion failed", "EACCES"},
    {"dotenv", "module not found"} }

\* executor.ts 111-126: the VerificationInput built from an ExecResult.
VerificationInputOf(step, helpMode, r, artifact) ==
  LET success == ~r.timedOut /\ r.exitCode = Num(0)
  IN [step |-> step, helpMode |-> helpMode, success |-> success,
      timedOut |-> r.timedOut, exitCode |-> r.exitCode, stdout |-> r.stdout,
      stderr |-> r.stderr,
      classification |-> IF success THEN "success"
                         ELSE classifyRunFailure(r.stderr, r.stdout),
      artifact |-> artifact]

VerificationInputs ==
  { VerificationInputOf(step, helpMode,
                        [timedOut |-> t, exitCode |-> code, stdout |-> out, stderr |-> err],
                        artifact) :
      step \in Steps, helpMode \in BOOLEAN, t \in BOOLEAN, code \in ExitCodes,
      out \in LogTexts, err \in ErrTexts, artifact \in {Null, {"dist/"}} }

VerInit ==
  /\ verifyInput \in VerificationInputs
  /\ verdict = NoVerdict

VerIdle ==
  /\ verifyInput = NoInput
  /\ verdict = NoVerdict

\* One call of verifyExecution.
VerifyExecution ==
  /\ verifyInput # NoInput
  /\ verdict = NoVerdict
  /\ verdict' = verifyExecution(verifyInput)
  /\ UNCHANGED verifyInput
  /\ UNCHANGED <<execVars, planVars, outVars, polVars, evVars, animVars>>

\* ------------------------------------------------------------ policy store
\* A path: absolute or relative, and its segments.  "" is the relative path with
\* no segment.
Path(abs, segs) == [abs |-> abs, segs |-> segs]
EmptyPath == Path(FALSE, <<>>)
RootDir == Path(TRUE, <<"repo">>)
\* path.join(dir, ...segs) and path.resolve(dir, p) for an absolute dir.
join(dir, segs) == Path(dir.abs, dir.segs \o segs)
resolve(dir, p) == IF p.abs THEN p ELSE Path(TRUE, dir.segs \o p.segs)

resolvePolicyPath(rootDir, overridePath) ==
  IF overridePath.abs THEN overridePath ELSE resolve(rootDir, overridePath)

RepoPolicyPath == join(RootDir, <<".reposherlock", "try-run-policy.json">>)
RepoPolicyPathFlat == join(RootDir, <<".reposherlock-try-run-policy.json">>)

\* An optional string: undefined (Null) or the set of the one string it is.
Given(o) == CHOOSE x \in o : TRUE
\* A string is truthy unless it is "".
Truthy(o) == o # Null /\ o # {EmptyPath}

\* (mutant: the in-repo locations are tried after the override path)
OverrideThenRepo(rootDir, overridePath) ==
  (IF Truthy(overridePath)
     THEN <<resolvePolicyPath(rootDir, Given(overridePath))>> ELSE <<>>)
  \o <<join(rootDir, <<".reposherlock", "try-run-policy.json">>),
       join(rootDir, <<".reposherlock-try-run-policy.json">>)>>

\* policy.ts 56-61.
candidatePaths(rootDir, overridePath) ==
  IF Truthy(overridePath)
    THEN <<resolvePolicyPath(rootDir, Given(overridePath))>>
    ELSE <<join(rootDir, <<".reposherlock", "try-run-policy.json">>),
           join(rootDir, <<".reposherlock-try-run-policy.json">>)>>

\* Values of a field of the parsed JSON: undefined, a string, or an array whose
\* items are strings or numbers.
Undefined == [kind |-> "undefined"]
Str(v) == [t |-> "string", v |-> v]
NumberItem == [t |-> "number", v |-> "5"]
Items == {Str(" NPM "), Str("npm"), Str("Node"), Str("  "), NumberItem}
Arr(items) == [kind |-> "array", items |-> items]
FieldValues ==
  {Undefined, [kind |-> "string", v |-> "npm"]}
  \cup { Arr(items) : items \in UNION { [1..n -> Items] : n \in 0..MaxItems } }

PolicyFields ==
  {"scriptPriority", "allowedCommands", "allowedScriptEntrypoints", "blockedScriptEntrypoints"}

\* What JSON.parse makes of a text: a SyntaxError, null, an array, or an object
\* with its fields.
SyntaxError == [json |-> "error"]
JsonNull == [json |-> "null"]
JsonArray == [json |-> "array"]
JsonObject(fields) == [json |-> "object", fields |-> fields]

\* The object of the test (artifactSnapshots.test.ts 86-93), and objects holding
\* one field value in every field.
TestRaw ==
  JsonObject(
    [scriptPriority |-> Arr(<<Str("build"), Str("test"), Str("start")>>),
     allowedCommands |-> Arr(<<Str("npm"), Str("node")>>),
     allowedScriptEntrypoints |-> Arr(<<Str("node")>>),
     blockedScriptEntrypoints |-> Arr(<<Str("curl")>>)])
Raws == { JsonObject([f \in PolicyFields |-> v]) : v \in FieldValues }

\* A file: absent, or present with a text that is blank or not, and what
\* JSON.parse makes of that text.
Missing == [kind |-> "missing"]
File(blank, parsed) == [kind |-> "file", blank |-> blank, parsed |-> parsed]
Blank == File(TRUE, SyntaxError)
Garbage == File(FALSE, SyntaxError)

KnownPaths == {RepoPolicyPath, RepoPolicyPathFlat, join(RootDir, <<"custom.json">>)}
OverridePaths ==
  {Null, {EmptyPath}, {Path(FALSE, <<"custom.json">>)}, {Path(TRUE, <<"repo", "custom.json">>)}}

ContentAt(path) == IF path \in DOMAIN files THEN files[path] ELSE Missing

\* policy.ts 96-108: null, a throw, or the parsed value.
readPolicyFile(content) ==
  IF content.kind = "missing" \/ content.blank THEN [kind |-> "null"]
  ELSE IF content.parsed = SyntaxError THEN [kind |-> "throw"]
  ELSE [kind |-> "value", value |-> content.parsed]

\* !raw of line 65: readPolicyFile returned null, or the text parsed to null.
Falsy(r) == r.kind = "null" \/ (r.kind = "value" /\ r.value = JsonNull)

\* Array.from(new Set(seq)): first occurrences, in order.
RECURSIVE Dedupe(_)
Dedupe(seq) ==
  IF seq = <<>> THEN <<>>
  ELSE LET init == Dedupe(SubSeq(seq, 1, Len(seq) - 1))
           last == seq[Len(seq)]
       IN IF last \in Range(init) THEN init ELSE Append(init, last)

\* (mutant: whatever the array holds after cleaning is used)
PickWithoutFallback(value, fallback) ==
  IF value.kind # "array" THEN fallback
  ELSE LET strings == SelectSeq(value.items, LAMBDA x : x.t = "string")
       IN [i \in 1..Len(strings) |-> Lower(Trim(strings[i].v))]

pickStringArray(value, fallback) ==
  IF value.kind # "array" THEN fallback
  ELSE LET strings == SelectSeq(value.items, LAMBDA x : x.t = "string")
           mapped == [i \in 1..Len(strings) |-> Lower(Trim(strings[i].v))]
           cleaned == SelectSeq(mapped, LAMBDA x : x # "")
       IN IF Len(cleaned) = 0 THEN fallback ELSE Dedupe(cleaned)

\* The string "default", among strings that are paths.
DefaultSource == Path(FALSE, <<"default">>)

defaultPolicy ==
  [source |-> DefaultSource,
   scriptPriority |-> <<"test", "lint", "build", "start", "dev">>,
   allowedCommands |-> <<"docker", "bun", "npm", "pnpm", "yarn", "make", "python", "pytest">>,
   allowedScriptEntrypoints |->
     <<"node", "npm", "npx", "bun", "pnpm", "yarn", "tsx", "ts-node", "vite", "vitest",
       "next", "react-scripts", "jest", "eslint", "prettier", "tsc", "turbo", "webpack",
       "rollup", "docker", "make", "python", "pytest", "go", "cargo", "uv">>,
   blockedScriptEntrypoints |->
     <<"curl", "wget", "bash", "sh", "zsh", "powershell", "pwsh", "cmd">>]

\* raw.<field>: undefined unless the parsed value is an object that has it.
RawField(raw, f) == IF raw.json = "object" THEN raw.fields[f] ELSE Undefined

mergePolicy(base, raw, source) ==
  [source |-> source,
   scriptPriority |-> pickStringArray(RawField(raw, "scriptPriority"), base.scriptPriority),
   allowedCommands |-> pickStringArray(RawField(raw, "allowedCommands"), base.allowedCommands),
   allowedScriptEntrypoints |->
     pickStringArray(RawField(raw, "allowedScriptEntrypoints"), base.allowedScriptEntrypoints),
   blockedScriptEntrypoints |->
     pickStringArray(RawField(raw, "blockedScriptEntrypoints"), base.blockedScriptEntrypoints)]

PolInit ==
  /\ \E r \in Raws :
       files \in [KnownPaths -> {Missing, Blank, Garbage, File(FALSE, JsonNull),
                                 File(FALSE, JsonArray), File(FALSE, r), File(FALSE, TestRaw)}]
  /\ policyArgs \in [rootDir : {RootDir}, overridePath : OverridePaths]
  /\ policyPc = "loop"
  /\ candidate = 1
  /\ reads = <<>>
  /\ loaded = NoResult

PolIdle ==
  /\ files = <<>>
  /\ policyArgs = NoInput
  /\ policyPc = "idle"
  /\ candidate = 0
  /\ reads = <<>>
  /\ loaded = NoResult

\* policy.ts 63-69: one turn of the for loop.
ReadPolicyFile ==
  /\ policyPc = "loop"
  /\ LET paths == candidatePaths(policyArgs.rootDir, policyArgs.overridePath)
     IN /\ candidate <= Len(paths)
        /\ LET raw == readPolicyFile(ContentAt(paths[candidate]))
           IN /\ reads' = Append(reads, paths[candidate])
              /\ IF raw.kind = "throw"
                   THEN /\ loaded' = [kind |-> "thrown", path |-> paths[candidate]]
                        /\ policyPc' = "done"
                        /\ UNCHANGED candidate
                   ELSE IF Falsy(raw)
                     THEN /\ candidate' = candidate + 1
                          /\ UNCHANGED <<loaded, policyPc>>
                     ELSE /\ loaded' = [kind |-> "returned",
                                        policy |-> mergePolicy(defaultPolicy, raw.value,
                                                               paths[candidate])]
                          /\ policyPc' = "done"
                          /\ UNCHANGED candidate
  /\ UNCHANGED <<files, policyArgs>>
  /\ UNCHANGED <<execVars, planVars, outVars, verVars, evVars, animVars>>

\* policy.ts 72: no candidate yielded a policy.
ReturnDefaults ==
  /\ policyPc = "loop"
  /\ candidate > Len(candidatePaths(policyArgs.rootDir, policyArgs.overridePath))
  /\ loaded' = [kind |-> "returned", policy |-> defaultPolicy]
  /\ policyPc' = "done"
  /\ UNCHANGED <<files, policyArgs, candidate, reads>>
  /\ UNCHANGED <<execVars, planVars, outVars, verVars, evVars, animVars>>

\* -------------------------------------------------------- AnimationScheduler
\* Durations are whole numbers of a time unit.
SchedulerConfig(stage, thinking, cap, reduced) ==
  [minStageMs |-> stage, minThinkingMs |-> thinking, maxArtificialDelayMs |-> cap,
   reducedMotion |-> reduced, constructed |-> TRUE]

\* No AnimationScheduler exists.
NoScheduler ==
  [minStageMs |-> 0, minThinkingMs |-> 0, maxArtificialDelayMs |-> 0,
   reducedMotion |-> FALSE, constructed |-> FALSE]

\* Configs a scheduler is constructed with: a cap from nothing to more than any
\* minimum, with and without reduced motion.
SchedulerConfigs ==
  { SchedulerConfig(stage, MaxMs, cap, reduced) :
      stage \in {1, MaxMs}, cap \in 0..(MaxMs + 1), reduced \in BOOLEAN }

Max(a, b) == IF a > b THEN a ELSE b

\* (mutant: the remaining budget is not looked at)
DelayWithoutBudget(actualMs, minVisibleMs, remainingBudgetMs, reducedMotion) ==
  IF reducedMotion THEN 0 ELSE Max(0, minVisibleMs - actualMs)

computeArtificialDelay(actualMs, minVisibleMs, remainingBudgetMs, reducedMotion) ==
  IF reducedMotion THEN 0
  ELSE LET needed == Max(0, minVisibleMs - actualMs)
       IN IF needed <= 0 THEN 0
          ELSE Max(0, Min(needed, remainingBudgetMs))

remainingArtificialDelayMs == Max(0, scheduler.maxArtificialDelayMs - artificialDelayUsedMs)

AnimInit ==
  /\ scheduler \in SchedulerConfigs
  /\ artificialDelayUsedMs = 0
  /\ enforced = <<>>

AnimIdle ==
  /\ scheduler = NoScheduler
  /\ artificialDelayUsedMs = 0
  /\ enforced = <<>>

\* The budget is read and the delay added to it before the await of the sleep, so
\* a call is one step.
enforceMinimum(actualMs, minVisibleMs) ==
  LET artificialDelayMs ==
        computeArtificialDelay(actualMs, minVisibleMs, remainingArtificialDelayMs,
                               scheduler.reducedMotion)
  IN /\ scheduler.constructed
     /\ Len(enforced) < MaxCalls
     /\ artificialDelayUsedMs' = IF artificialDelayMs > 0
                                   THEN artificialDelayUsedMs + artificialDelayMs
                                   ELSE artificialDelayUsedMs
     /\ enforced' = Append(enforced,
                           [actualMs |-> actualMs, minVisibleMs |-> minVisibleMs,
                            artificialDelayMs |-> artificialDelayMs,
                            slept |-> IF artificialDelayMs > 0 THEN artificialDelayMs ELSE 0,
                            totalVisibleMs |-> actualMs + artificialDelayMs])
     /\ UNCHANGED scheduler
     /\ UNCHANGED <<execVars, planVars, outVars, verVars, polVars, evVars>>

\* The minimum of a call: the argument, or the config's default when it is left out.
Minimums(default) == {default} \cup 0..MaxMs

EnforceStageMinimum ==
  \E actualMs \in 0..MaxActualMs, minStageMs \in Minimums(scheduler.minStageMs) :
    enforceMinimum(actualMs, minStageMs)

EnforceThinkingMinimum ==
  \E actualMs \in 0..MaxActualMs, minThinkingMs \in Minimums(scheduler.minThinkingMs) :
    enforceMinimum(actualMs, minThinkingMs)

\* elapsed is this.now() - startedAtMs, negative when the clock was set back.
EnforceSince ==
  \E elapsed \in (-1)..MaxActualMs, minVisibleMs \in 0..MaxMs :
    enforceMinimum(Max(0, elapsed), minVisibleMs)

ResetRun ==
  /\ scheduler.constructed
  /\ enforced # <<>>
  /\ artificialDelayUsedMs' = 0
  /\ enforced' = <<>>
  /\ UNCHANGED scheduler
  /\ UNCHANGED <<execVars, planVars, outVars, verVars, polVars, evVars>>

\* ------------------------------------------------------------ specifications
\* executeRunPlan on any plan.
Init == ExecInit /\ PlanIdle /\ OutIdle /\ VerIdle /\ PolIdle /\ EvIdle /\ AnimIdle
Next ==
  \/ EarlyReturn
  \/ Mkdtemp
  \/ CopyRepo
  \/ StartCommand
  \/ ChildExit
  \/ StreamsEnd
  \/ TimerFire
  \/ KillTimerFire
  \/ ChildClose
  \/ ChildError
  \/ RecordExecution
  \/ Summarize
  \/ Cleanup
Spec == Init /\ [][Next]_vars

\* The same program under the scheduling Node and the operating system guarantee:
\* a pending promise continuation, an armed timer and an emitted event are run by
\* the event loop, and a process that was sent SIGKILL ends.  Nothing makes a
\* process end by itself, nor a descendant release the pipes it inherited.
SpecFair ==
  /\ Spec
  /\ WF_vars(EarlyReturn)
  /\ WF_vars(Mkdtemp)
  /\ WF_vars(CopyRepo)
  /\ WF_vars(StartCommand)
  /\ WF_vars(TimerFire)
  /\ WF_vars(KillTimerFire)
  /\ WF_vars(ChildExit /\ "SIGKILL" \in Range(signals))
  /\ WF_vars(ChildClose)
  /\ WF_vars(ChildError)
  /\ WF_vars(RecordExecution)
  /\ WF_vars(Summarize)
  /\ WF_vars(Cleanup)

\* executeRunPlan on any plan, with the callback that keeps the events it is given.
EventsInit == ExecInitOn(ObservedPlans) /\ PlanIdle /\ OutIdle /\ VerIdle /\ PolIdle /\ EvRecording /\ AnimIdle
EventsNext ==
  \/ EarlyReturn
  \/ Mkdtemp
  \/ CopyRepo
  \/ StartCommand
  \/ Progress
  \/ ChildExit
  \/ StreamsEnd
  \/ TimerFire
  \/ KillTimerFire
  \/ ChildClose
  \/ ChildError
  \/ RecordExecution
  \/ Summarize
  \/ Cleanup
SpecEvents == EventsInit /\ [][EventsNext]_vars

\* An AnimationScheduler and the calls made on it.
AnimSpecInit == ExecIdle /\ PlanIdle /\ OutIdle /\ VerIdle /\ PolIdle /\ EvIdle /\ AnimInit
AnimSpecNext ==
  \/ EnforceStageMinimum
  \/ EnforceThinkingMinimum
  \/ EnforceSince
  \/ ResetRun
SpecAnim == AnimSpecInit /\ [][AnimSpecNext]_vars

\* buildRunPlan on any input.
PlanSpecInit == ExecIdle /\ PlanInit /\ OutIdle /\ VerIdle /\ PolIdle /\ EvIdle /\ AnimIdle
PlanSpecNext == BuildRunPlan
SpecPlan == PlanSpecInit /\ [][PlanSpecNext]_vars

\* The output buffers of one execWithLimit call.
OutSpecInit == ExecIdle /\ PlanIdle /\ OutInit /\ VerIdle /\ PolIdle /\ EvIdle /\ AnimIdle
OutSpecNext ==
  \/ StdoutData
  \/ StderrData
  \/ CloseToSnippets
  \/ ErrorToSnippets
SpecOut == OutSpecInit /\ [][OutSpecNext]_vars

\* verifyExecution over every VerificationInput.
VerSpecInit == ExecIdle /\ PlanIdle /\ OutIdle /\ VerInit /\ PolIdle /\ EvIdle /\ AnimIdle
VerSpecNext == VerifyExecution
SpecVerify == VerSpecInit /\ [][VerSpecNext]_vars

\* loadTryRunPolicy over every file system and override path.
PolSpecInit == ExecIdle /\ PlanIdle /\ OutIdle /\ VerIdle /\ PolInit /\ EvIdle /\ AnimIdle
PolSpecNext ==
  \/ ReadPolicyFile
  \/ ReturnDefaults
SpecPolicy == PolSpecInit /\ [][PolSpecNext]_vars


\* ======================================================================
\* Properties of executeRunPlan (specification Spec)
\* ======================================================================
Returned == pc = "done" /\ result.kind = "returned"
Failing(e) == e.timedOut \/ e.exitCode # Num(0)
IsStartHelp(cmd) == inferStep(cmd.command, cmd.args) = "start" /\ isHelpMode(cmd.args)
\* A start-step, help-mode, timed-out execution with a later runnable start help entry.
FallbackEligible(e) ==
  /\ e.step = "start"
  /\ e.helpMode
  /\ e.timedOut
  /\ \E j \in (e.planIndex + 1)..Len(plan) : plan[j].run /\ IsStartHelp(plan[j])

\* C1: every execution was produced by running an entry of the plan whose run flag
\* is true; an entry with run = false is never spawned.
C1_OnlyRunnableExecuted ==
  /\ \A k \in 1..Len(executions) :
       LET e == executions[k]
       IN /\ e.planIndex \in 1..Len(plan)
          /\ plan[e.planIndex].run
          /\ e.command = plan[e.planIndex].command
          /\ e.args = plan[e.planIndex].args
  /\ procs \subseteq {j \in 1..Len(plan) : plan[j].run}
  /\ Returned => result.executions = executions

C1_Witness ==
  /\ Returned
  /\ \E k \in 1..Len(result.executions) :
       \E j \in 1..Len(plan) : j < result.executions[k].planIndex /\ ~plan[j].run

\* C4 as stated: when the call has returned or thrown, the sandbox directory does not
\* exist.
C4_SandboxGoneOnEveryExit ==
  pc = "done" => sandbox \notin {"exists", "leftover"}

\* C4 amended: on every exit path after the directory was created its removal has
\* been attempted; it is gone unless that removal failed; and a failed removal
\* changes neither the result the try block built nor the error it threw.
C4_CleanupAttemptedAndSwallowed ==
  pc = "done" =>
    /\ sandbox # "exists"
    /\ sandbox = "none" => pending = "none"
    /\ pending = "result" =>
         /\ result = BuildResult(fallbackAttempted, executions)
         /\ result.kind = "returned"
    /\ pending = "error" => result = Thrown

C4_Witness ==
  /\ pc = "done"
  /\ pending = "error"
  /\ sandbox = "removed"
  /\ Len(executions) > 0

\* C5: an execution that failed and is not eligible for the fallback is the last one.
C5_FailureStopsRun ==
  \A k \in 1..Len(executions) :
    (Failing(executions[k]) /\ ~FallbackEligible(executions[k])) => k = Len(executions)

C5_Witness ==
  /\ Returned
  /\ \E k \in 1..Len(executions) :
       /\ Failing(executions[k])
       /\ ~FallbackEligible(executions[k])
       /\ executions[k].step = "start"
       /\ executions[k].timedOut
       /\ \E j \in (executions[k].planIndex + 1)..Len(plan) : plan[j].run

\* C6 as stated: after a start help-probe that timed out with a later runnable start
\* help-probe entry, the next command executed is such a start help-probe entry.
C6_NextExecutedIsFallbackEntry ==
  \A k \in 1..Len(executions) :
    (FallbackEligible(executions[k]) /\ k < Len(executions)) =>
      (executions[k + 1].step = "start" /\ executions[k + 1].helpMode)

RecoveredSentence == Sentence("Run attempt recovered after start timeout via fallback command.")

\* C7: the summary is the recovered sentence exactly when a fallback was taken and
\* the final execution succeeded; [timed-out start probe, successful start probe]
\* gives 2 executions (failed, then success/partial); an unrecovered failure is
\* named by the summary.
C7_SummaryOfRecovery ==
  Returned =>
    LET ex == result.executions
        n == Len(ex)
        failedIdx == {i \in 1..n : Failing(ex[i])}
        recovered == fallbackAttempted /\ n > 0 /\ ~Failing(ex[n])
    IN /\ (result.summary = RecoveredSentence) <=> recovered
       /\ ( /\ Len(plan) = 2
            /\ \A j \in 1..2 : plan[j].run /\ IsStartHelp(plan[j])
            /\ n >= 1 /\ ex[1].timedOut
            /\ n >= 2 => ~Failing(ex[2]) )
          => /\ n = 2
             /\ ex[1].verificationStatus = "failed"
             /\ ex[2].classification = "success"
             /\ ex[2].verificationStatus = "partial"
             /\ result.summary = RecoveredSentence
       /\ (failedIdx # {} /\ ~recovered) =>
            LET last == ex[CHOOSE i \in failedIdx : \A j \in failedIdx : j <= i]
            IN result.summary = [text |-> "Run attempt failed at",
                                 command |-> last.command, args |-> last.args]

C7_Witness ==
  /\ Returned
  /\ Len(plan) = 2
  /\ Len(result.executions) = 2
  /\ result.executions[1].timedOut
  /\ result.summary = RecoveredSentence

IsPrefix(a, b) == Len(a) <= Len(b) /\ a = SubSeq(b, 1, Len(a))

\* C8: the executed plan indices are strictly increasing (no entry runs twice) and
\* the list only ever grows at its end.
C8_AppendOnlyInPlanOrder ==
  /\ [](\A k \in 1..Len(executions) :
          \A m \in 1..Len(executions) :
            k < m => executions[k].planIndex < executions[m].planIndex)
  /\ [][IsPrefix(executions, executions')]_vars

C8_Witness ==
  /\ Returned
  /\ Len(result.executions) = 3
  /\ result.executions[1].timedOut

\* C9: at most one command process is alive; a process exists only while the loop
\* awaits it, and when the loop starts a command every earlier one is recorded.
C9_OneProcessAtATime ==
  /\ Cardinality(procs) <= 1
  /\ pc # "await" => procs = {}
  /\ pc = "loop" => Len(executions) = runIndex
  /\ pc = "await" => Len(executions) = runIndex - 1

C9_Witness ==
  /\ pc = "await"
  /\ child = "running"
  /\ procs = {commandIndex}
  /\ Len(executions) >= 1


\* ======================================================================
\* Properties of buildRunPlan (specification SpecPlan)
\* ======================================================================
AllowedByPolicy(command) ==
  \E a \in input.policy.allowedCommands : Lower(a) = Lower(command)

\* C2: the final run flag of every planned command is its flag before sanitization
\* AND "the command is in policy.allowedCommands, case-insensitively"; command and
\* args are unchanged.
C2_SanitizedRunFlag ==
  runPlan # NoPlan =>
    LET ex == runPlan.executableCommands
    IN /\ Len(ex) = Len(planned)
       /\ \A i \in 1..Len(ex) :
            /\ ex[i].command = planned[i].command
            /\ ex[i].args = planned[i].args
            /\ ex[i].run = (planned[i].run /\ AllowedByPolicy(planned[i].command))
            /\ ~AllowedByPolicy(planned[i].command) => ~ex[i].run
            /\ ~planned[i].run => ~ex[i].run

C2_Witness ==
  /\ runPlan # NoPlan
  /\ runPlan.strategy = "node-bun"
  /\ Len(planned) > 2
  /\ \E i \in 1..Len(planned) : planned[i].run /\ ~runPlan.executableCommands[i].run

\* The scripts of the manifest whose entrypoint is blocklisted.
BlockedScripts ==
  IF input.package = Null THEN {}
  ELSE LET scripts == (CHOOSE x \in input.package : TRUE).scripts
       IN {name \in DOMAIN scripts :
             /\ extractScriptEntrypoint(scripts[name]) # Null
             /\ extractScriptEntrypoint(scripts[name])
                  \subseteq LowerSet(input.policy.blockedScriptEntrypoints)}

\* C3: a script whose entrypoint is blocklisted is rejected by evaluateScriptSafety,
\* also when the allowlist names the entrypoint too, and its command has run = false.
C3_BlockDominatesAllow ==
  runPlan # NoPlan =>
    \A name \in BlockedScripts :
      LET scripts == (CHOOSE x \in input.package : TRUE).scripts
          ex == runPlan.executableCommands
      IN /\ ~evaluateScriptSafety(scripts[name], input.avail.bun, input.avail.npm,
                                  input.policy).safe
         /\ runPlan.strategy = "node-bun" =>
              \A i \in 2..Len(ex) :
                (ex[i].args[1] = "run" /\ ex[i].args[2] = name) => ~ex[i].run

C3_Witness ==
  /\ runPlan # NoPlan
  /\ runPlan.strategy = "node-bun"
  /\ input.avail.npm
  /\ \E name \in BlockedScripts :
       LET scripts == (CHOOSE x \in input.package : TRUE).scripts
           ex == runPlan.executableCommands
       IN /\ extractScriptEntrypoint(scripts[name])
               \subseteq LowerSet(input.policy.allowedScriptEntrypoints)
          /\ \E i \in 2..Len(ex) :
               /\ ex[i].command = "npm"
               /\ ex[i].args[2] = name
               /\ ~ex[i].run
               /\ AllowedByPolicy(ex[i].command)

\* ======================================================================
\* Properties of the output buffers (specification SpecOut)
\* ======================================================================
TailOf(buf, all) ==
  /\ Len(buf) <= maxOutputChars
  /\ buf = Suffix(all, Min(maxOutputChars, Len(all)))

\* C10 as stated: the buffers after each chunk and the final snippets are at most
\* maxOutputChars long and are the tail of the concatenation of the chunks received.
C10_SnippetsAreTailOfChunks ==
  /\ ostate = "running" => TailOf(outBuf, outAll) /\ TailOf(errBuf, errAll)
  /\ snippets # NoSnippets =>
       /\ TailOf(snippets.stdoutSnippet, outAll)
       /\ TailOf(snippets.stderrSnippet, errAll)

\* C10 amended: as stated for the buffers and for stdoutSnippet; stderrSnippet is
\* the tail of the stderr chunks when the process was spawned, and the tail of the
\* error text of the spawn when the spawn failed.
C10_SnippetsAreTailOfOutput ==
  /\ ostate = "running" => TailOf(outBuf, outAll) /\ TailOf(errBuf, errAll)
  /\ snippets # NoSnippets =>
       /\ TailOf(snippets.stdoutSnippet, outAll)
       /\ IF ostate = "failed"
            THEN /\ errAll = <<>>
                 /\ TailOf(snippets.stderrSnippet, ErrorText)
            ELSE TailOf(snippets.stderrSnippet, errAll)

C10_Witness ==
  /\ snippets # NoSnippets
  /\ maxOutputChars > 0
  /\ Len(outAll) > maxOutputChars
  /\ Len(errAll) > maxOutputChars
  /\ nChunks = MaxChunks

\* ------------------------------------------------------------------------ C11
\* C11: two-stage timeout.  When the timeout timer expires while the process is
\* running, timedOut is set and SIGTERM is sent in that step, and the inner timer
\* is armed; SIGKILL is sent when the inner timer expires, and only to a process
\* that is still running; SIGKILL never precedes SIGTERM; a process that finished
\* before the timer expired receives no signal.  (The 1.5 s of the inner timer are
\* modelled by its order: it is armed by the expiry of the first.)
C11_TwoStageTimeout ==
  /\ [](pc = "await" =>
         /\ \A i \in 1..Len(signals) :
              signals[i] = "SIGKILL" => \E j \in 1..(i - 1) : signals[j] = "SIGTERM"
         /\ signals # <<>> => timedOut /\ timer = "fired"
         /\ killTimer # "none" => timer = "fired"
         /\ (child \in {"exited-open", "exited", "closed"} /\ timer \in {"armed", "cleared"})
              => signals = <<>>)
  /\ [][/\ (timer = "armed" /\ timer' = "fired" /\ child = "running")
            => (timedOut' /\ signals' = Append(signals, "SIGTERM") /\ killTimer' = "armed")
        /\ (killTimer = "armed" /\ killTimer' = "fired" /\ child = "running")
            => signals' = Append(signals, "SIGKILL")
        /\ (signals' # signals /\ signals' # <<>>) => child = "running"
        /\ (signals' # signals /\ signals' # <<>>)
            => \/ timer = "armed" /\ timer' = "fired"
               \/ killTimer = "armed" /\ killTimer' = "fired"]_vars

\* The process ignored SIGTERM and was killed by SIGKILL.
C11_Witness ==
  /\ pc = "await"
  /\ signals = <<"SIGTERM", "SIGKILL">>
  /\ child = "exited"
  /\ timedOut

\* ------------------------------------------------------------------------ C12
\* C12: every started command eventually completes (execWithLimit resolves and
\* the loop records the execution), and executeRunPlan always terminates.
C12_EveryCommandCompletes ==
  /\ [](pc = "await" => <>(pc # "await"))
  /\ <>(pc = "done")

\* ------------------------------------------------------------------------ C13
TimeoutEvidence == <<"command timed out before verification could complete">>

\* C13: a timeout is data.  Every recorded execution with timedOut = true has
\* verificationStatus "failed" and the evidence that names the timeout, whatever
\* its exit code; a command that timed out is always recorded as an execution
\* (execWithLimit resolves with the timeout, it never rejects).
C13_TimeoutIsData ==
  /\ [](\A i \in 1..Len(executions) :
          executions[i].timedOut =>
            /\ executions[i].verificationStatus = "failed"
            /\ executions[i].verificationEvidence = TimeoutEvidence)
  /\ [][(pc = "await" /\ pc' # "await" /\ resolved.timedOut)
          => /\ Len(executions') = Len(executions) + 1
             /\ executions'[Len(executions')].timedOut
             /\ executions'[Len(executions')].exitCode = resolved.exitCode]_vars

\* The call returned with a timed-out execution whose process reported exit code
\* 0, and one that was killed (exit code null).
C13_Witness ==
  /\ Returned
  /\ \E i, j \in 1..Len(result.executions) :
       /\ result.executions[i].timedOut /\ result.executions[i].exitCode = Num(0)
       /\ result.executions[j].timedOut /\ result.executions[j].exitCode = Null

\* ------------------------------------------------------------------------ C14
\* A text built from parts is non-empty when one of its parts is.
NonEmptyText(parts) == \E i \in 1..Len(parts) : parts[i] # ""

\* C14: the evidence verifyExecution returns is a non-empty string, for every
\* step, helpMode, timedOut, exit code (null included), output text and build
\* artifact, with success and classification as the executor derives them.
C14_EvidenceNonEmpty ==
  verdict # NoVerdict =>
    /\ NonEmptyText(verdict.evidence)
    /\ verdict.status \in {"verified", "partial", "failed"}

\* A command that failed with exit code null and printed nothing got its evidence.
C14_Witness ==
  /\ verdict # NoVerdict
  /\ verifyInput.exitCode = Null
  /\ ~verifyInput.timedOut
  /\ verifyInput.stdout = {}

\* ------------------------------------------------------------------------ C15
SpawnFailed(e) == e.exitCode = Num(-1)

\* What C15 says of a spawn failure apart from the fate of the sandbox: the 'error'
\* event resolves the call with exit code -1, timedOut = false and the error text
\* appended to stderr; the execution recorded for it is a failed one with a failure
\* classification; it is the last execution (the loop stops).
SpawnFailureIsData ==
  /\ [](\A i \in 1..Len(executions) :
          SpawnFailed(executions[i]) =>
            /\ ~executions[i].timedOut
            /\ executions[i].classification \in {"unknown", "permission", "missing-deps",
                                                 "missing-env", "port-conflict", "test-fail"}
            /\ executions[i].verificationStatus = "failed"
            /\ i = Len(executions)
            /\ pc \in {"summary", "finally", "done"})
  /\ []((pc = "done" /\ executions # <<>> /\ SpawnFailed(executions[Len(executions)])
          /\ result.kind = "returned")
         => /\ result.executions = executions
            /\ result.summary.text = "Run attempt failed at")
  /\ [][(child = "spawnfail" /\ child' # "spawnfail")
          => /\ resolved' # Unresolved
             /\ resolved'.exitCode = Num(-1)
             /\ ~resolved'.timedOut
             /\ resolved'.stderr # stderr
             /\ stderr \subseteq resolved'.stderr]_vars
  /\ [][(pc = "await" /\ pc' # "await" /\ resolved.exitCode = Num(-1))
          => /\ Len(executions') = Len(executions) + 1
             /\ SpawnFailed(executions'[Len(executions')])]_vars

\* C15 as stated: a spawn failure is data as above, and when the call is over the
\* sandbox has been removed.
C15_SpawnFailureSandboxRemoved ==
  /\ SpawnFailureIsData
  /\ []((pc = "done" /\ executions # <<>> /\ SpawnFailed(executions[Len(executions)]))
         => sandbox = "removed")

\* C15 (amended): a spawn failure is data as above, and when the call is over the
\* removal of the sandbox has been attempted; the directory is gone unless that
\* removal failed.
C15_SpawnFailureIsDataCleanupAttempted ==
  /\ SpawnFailureIsData
  /\ []((pc = "done" /\ executions # <<>> /\ SpawnFailed(executions[Len(executions)]))
         => sandbox \in {"removed", "leftover"})

\* The call returned its result after a command ran and the next one failed to spawn
\* with a permission error; the sandbox was removed.
C15_Witness ==
  /\ Returned
  /\ sandbox = "removed"
  /\ Len(result.executions) = 2
  /\ SpawnFailed(result.executions[2])
  /\ result.executions[2].classification = "permission"

\* ------------------------------------------------------------------------ C16
Consulted == Range(reads)
\* A file that is present with a text JSON.parse rejects (the empty text included).
PresentNotJson(path) ==
  ContentAt(path).kind = "file" /\ ContentAt(path).parsed = SyntaxError

\* C16: when the call is over, it has thrown if a file it consulted is present
\* with content that is not valid JSON, and it has returned the built-in default
\* policy, source "default", if no file exists at any consulted path.
C16_InvalidJsonThrows ==
  policyPc = "done" =>
    /\ (\E path \in Consulted : PresentNotJson(path)) => loaded.kind = "thrown"
    /\ (\A path \in Consulted : ContentAt(path) = Missing)
         => loaded = [kind |-> "returned", policy |-> defaultPolicy]

\* ------------------------------------------------------------------------ C17
\* m is the normalized form of the items: the trimmed, lowercased, non-empty
\* strings among them, each once, in the order of their first occurrences.
IsNormalized(m, items) ==
  LET Clean(i) == Lower(Trim(items[i].v))
      Kept == {i \in 1..Len(items) : items[i].t = "string" /\ Clean(i) # ""}
      First(x) == CHOOSE i \in Kept : Clean(i) = x /\ \A j \in Kept : Clean(j) = x => i <= j
  IN /\ Range(m) = {Clean(i) : i \in Kept}
     /\ \A a, b \in 1..Len(m) : a < b => m[a] # m[b] /\ First(m[a]) < First(m[b])

HasCleanString(value) ==
  /\ value.kind = "array"
  /\ \E i \in 1..Len(value.items) :
       value.items[i].t = "string" /\ Lower(Trim(value.items[i].v)) # ""

\* C17: every field of a policy merged from a file is the normalized override when
\* the raw value is an array that holds a string left non-empty by cleaning, and
\* the built-in default otherwise (missing, not an array, empty, or empty after
\* cleaning); no field of a loaded policy is an empty list.
C17_PerFieldMerge ==
  (policyPc = "done" /\ loaded.kind = "returned") =>
    /\ \A f \in PolicyFields : loaded.policy[f] # <<>>
    /\ loaded.policy.source # DefaultSource =>
         LET raw == ContentAt(loaded.policy.source).parsed
         IN \A f \in PolicyFields :
              IF HasCleanString(RawField(raw, f))
                THEN IsNormalized(loaded.policy[f], RawField(raw, f).items)
                ELSE loaded.policy[f] = defaultPolicy[f]

\* A policy merged from the file [" NPM ", 5] in every field: the strings cleaned,
\* the number dropped.
C17_Witness ==
  /\ policyPc = "done"
  /\ loaded.kind = "returned"
  /\ loaded.policy.source = RepoPolicyPathFlat
  /\ RawField(ContentAt(RepoPolicyPathFlat).parsed, "allowedCommands")
       = Arr(<<Str(" NPM "), NumberItem>>)
  /\ loaded.policy.allowedCommands = <<"npm">>

\* ------------------------------------------------------------------------ C18
\* The file at the path yields a policy: readPolicyFile returns a value the loop
\* does not skip.
Yields(path) ==
  LET raw == readPolicyFile(ContentAt(path))
  IN raw.kind = "value" /\ ~Falsy(raw)

\* C18: with an override path (a non-empty string) only that path, resolved
\* against rootDir if relative, is ever read, present or not; without one,
\* .reposherlock/try-run-policy.json is read first and
\* .reposherlock-try-run-policy.json only after the first yielded nothing; the
\* source of a policy merged from a file is the first path read that yields one.
C18_LookupOrder ==
  LET o == policyArgs.overridePath
  IN policyPc \in {"loop", "done"} =>
       /\ Truthy(o) =>
            /\ IsPrefix(reads, <<IF Given(o).abs THEN Given(o)
                                  ELSE Path(TRUE, policyArgs.rootDir.segs \o Given(o).segs)>>)
            /\ policyPc = "done" => Len(reads) = 1
       /\ ~Truthy(o) =>
            /\ IsPrefix(reads, <<RepoPolicyPath, RepoPolicyPathFlat>>)
            /\ policyPc = "done" => reads # <<>>
       /\ \A i \in 1..(Len(reads) - 1) : ~Yields(reads[i])
       /\ (policyPc = "done" /\ loaded.kind = "returned") =>
            IF \E i \in 1..Len(reads) : Yields(reads[i])
              THEN loaded.policy.source = reads[Len(reads)] /\ Yields(reads[Len(reads)])
              ELSE loaded.policy.source = DefaultSource

\* A relative override path names a missing file while both in-repo files hold a
\* policy: the defaults were returned after one read.
C18_Witness ==
  /\ policyPc = "done"
  /\ policyArgs.overridePath = {Path(FALSE, <<"custom.json">>)}
  /\ ContentAt(join(RootDir, <<"custom.json">>)) = Missing
  /\ Yields(RepoPolicyPath)
  /\ Yields(RepoPolicyPathFlat)
  /\ reads = <<join(RootDir, <<"custom.json">>)>>
  /\ loaded = [kind |-> "returned", policy |-> defaultPolicy]

\* ------------------------------------------------------------------------ C19
\* C19: the strategy follows the key files alone, by precedence: a Dockerfile or
\* compose file gives docker; else package.json gives node-bun; else
\* requirements.txt or pyproject.toml gives python; else none.  The same key files
\* give the same strategy for every tool availability and every policy, and the
\* strategy none has no proposed and no executable command.
C19_StrategyPrecedence ==
  runPlan # NoPlan =>
    LET k == input.keyFiles
        container == k.dockerfile \/ k.dockerCompose
        manifest == k.packageJson
        python == k.requirementsTxt \/ k.pyprojectToml
    IN /\ runPlan.strategy \in {"docker", "node-bun", "python", "none"}
       /\ container => runPlan.strategy = "docker"
       /\ (~container /\ manifest) => runPlan.strategy = "node-bun"
       /\ (~container /\ ~manifest /\ python) => runPlan.strategy = "python"
       /\ (~container /\ ~manifest /\ ~python) => runPlan.strategy = "none"
       /\ \A a \in Availability, p \in Policies :
            buildRunPlan([input EXCEPT !.avail = a, !.policy = p]).strategy = runPlan.strategy
       /\ runPlan.strategy = "none" =>
            runPlan.proposedCommands = <<>> /\ runPlan.executableCommands = <<>>

\* A repository with a Dockerfile, a package.json and a requirements.txt, planned
\* on a machine without docker: the docker strategy, nothing authorized.
C19_Witness ==
  /\ runPlan # NoPlan
  /\ input.keyFiles.dockerfile /\ input.keyFiles.packageJson /\ input.keyFiles.requirementsTxt
  /\ ~input.avail.docker /\ input.avail.npm /\ input.avail.python
  /\ runPlan.strategy = "docker"
  /\ \A i \in 1..Len(runPlan.executableCommands) : ~runPlan.executableCommands[i].run

\* ------------------------------------------------------------------------ C20
\* C20: under the python strategy, without tryRunPython no executable command has
\* run = true; with tryRunPython the plan is the one command python <first
\* entrypoint> if an entrypoint was detected, and the one command pytest otherwise.
C20_PythonOptIn ==
  (runPlan # NoPlan /\ runPlan.strategy = "python") =>
    LET cmds == runPlan.executableCommands
        entrypoints == input.keyFiles.entrypoints
    IN /\ ~input.tryRunPython => \A i \in 1..Len(cmds) : ~cmds[i].run
       /\ input.tryRunPython =>
            /\ Len(cmds) = 1
            /\ IF entrypoints # <<>>
                 THEN cmds[1].command = "python" /\ cmds[1].args = <<entrypoints[1]>>
                 ELSE cmds[1].command = "pytest" /\ cmds[1].args = <<>>
            /\ runPlan.proposedCommands = <<<<cmds[1].command>> \o cmds[1].args>>

\* Python is on the PATH and allowed by the policy, tryRunPython is off: the one
\* command of the plan is not authorized.
C20_Witness ==
  /\ runPlan # NoPlan
  /\ runPlan.strategy = "python"
  /\ ~input.tryRunPython
  /\ input.avail.python
  /\ "python" \in input.policy.allowedCommands
  /\ Len(runPlan.executableCommands) = 1
  /\ ~runPlan.executableCommands[1].run

\* ------------------------------------------------------------------------ C21
\* A repository with only a package manifest and a bun lockfile, planned while bun
\* is not on the PATH.
BunLockOnlyWithoutBun ==
  /\ runPlan # NoPlan
  /\ input.keyFiles = K(FALSE, FALSE, TRUE, TRUE, FALSE, FALSE, <<>>)
  /\ ~input.avail.bun

UnavailableWhys == { "bun selected but unavailable", "npm unavailable" }

\* C21: in that scenario the plan is the package-manager strategy whose
\* install command is not authorized and whose why says the runner is unavailable.
C21_InstallUnauthorizedWithoutBun ==
  BunLockOnlyWithoutBun =>
    /\ runPlan.strategy = "node-bun"
    /\ ~runPlan.executableCommands[1].run
    /\ runPlan.executableCommands[1].why[1] \in UnavailableWhys

\* ------------------------------------------------------------------------ C22
\* The manifest of the planned project declares a CLI binary.
DeclaresBin ==
  input.package # Null /\ (CHOOSE x \in input.package : TRUE).bin

\* The positions of the script commands of a package-manager plan: everything after
\* the install command, except the placeholder that stands for "no script selected".
ScriptPositions ==
  IF Len(planned) = 2 /\ planned[2].why = <<"no preferred scripts found">>
    THEN {}
    ELSE 2..Len(planned)

\* C22: in the package-manager strategy, a selected script named start or dev of a
\* project that declares bin is planned with args run <name> -- --help; every
\* other script, and every script of a project without bin, has args run <name>.
C22_HelpProbeTail ==
  (runPlan # NoPlan /\ runPlan.strategy = "node-bun") =>
    \A i \in ScriptPositions :
      LET cmd == runPlan.executableCommands[i]
          name == cmd.args[2]
      IN /\ Len(cmd.args) >= 2
         /\ cmd.args[1] = "run"
         /\ cmd.args = IF DeclaresBin /\ name \in {"start", "dev"}
                         THEN <<"run", name, "--", "--help">>
                         ELSE <<"run", name>>
         /\ runPlan.proposedCommands[i] = <<cmd.command>> \o cmd.args

\* A CLI project whose plan holds both a help-probed start script and a plain test
\* script.
C22_Witness ==
  /\ runPlan # NoPlan
  /\ runPlan.strategy = "node-bun"
  /\ DeclaresBin
  /\ \E i, j \in ScriptPositions :
       /\ runPlan.executableCommands[i].args = <<"run", "start", "--", "--help">>
       /\ runPlan.executableCommands[j].args = <<"run", "test">>

\* ------------------------------------------------------------------------ C29
\* The script map of the planned manifest (empty without a readable manifest).
ManifestScripts ==
  IF input.package = Null THEN <<>> ELSE (CHOOSE x \in input.package : TRUE).scripts

\* The first (up to) three names of policy.scriptPriority, in that order, that are
\* keys of the manifest's script map.
FirstThreeDeclared ==
  Take(SelectSeq(input.policy.scriptPriority,
                 LAMBDA name : name \in DOMAIN ManifestScripts), 3)

\* The same, counting only the keys whose body is not the empty string.
FirstThreeWithBody ==
  Take(SelectSeq(input.policy.scriptPriority,
                 LAMBDA name : /\ name \in DOMAIN ManifestScripts
                               /\ ManifestScripts[name] # <<>>), 3)

\* The shape of a package-manager plan that selected the scripts `names`.
InstallThenScripts(names) ==
  LET cmds == runPlan.executableCommands
  IN /\ cmds[1].args \in { <<"install">>, <<"ci">> }
     /\ Len(names) <= 3
     /\ IF names = <<>>
          THEN /\ Len(cmds) = 2
               /\ ~cmds[2].run
               /\ cmds[2].why[1] = "no preferred scripts found"
          ELSE /\ Len(cmds) = 1 + Len(names)
               /\ \A i \in 1..Len(names) :
                    /\ SubSeq(cmds[i + 1].args, 1, 2) = <<"run", names[i]>>
                    /\ cmds[i + 1].why[1] # "no preferred scripts found"

\* C29 (as stated): the plan is the install command, then the first (up to) 3 names
\* of policy.scriptPriority that exist in the manifest's script map, or one
\* placeholder with run = false when there is none.
C29_SelectsDeclaredScripts ==
  (runPlan # NoPlan /\ runPlan.strategy = "node-bun") =>
    InstallThenScripts(FirstThreeDeclared)

\* C29 (amended): the plan is the install command, then the first (up to) 3 names
\* of policy.scriptPriority whose entry in the manifest's script map is a non-empty
\* string, in that order, or one placeholder with run = false when there is none.
C29_SelectsScriptsWithBody ==
  (runPlan # NoPlan /\ runPlan.strategy = "node-bun") =>
    InstallThenScripts(FirstThreeWithBody)

\* A manifest that declares a preferred script with an empty body: the plan passes
\* over it and takes the following names.
C29_Witness ==
  /\ runPlan # NoPlan
  /\ runPlan.strategy = "node-bun"
  /\ FirstThreeWithBody # <<>>
  /\ FirstThreeWithBody # FirstThreeDeclared
  /\ Len(runPlan.executableCommands) = 1 + Len(FirstThreeWithBody)

\* More than three preferred scripts are declared: only three are planned.
C29_WitnessCapped ==
  /\ runPlan # NoPlan
  /\ runPlan.strategy = "node-bun"
  /\ Len(SelectSeq(input.policy.scriptPriority,
                   LAMBDA name : name \in DOMAIN ManifestScripts)) > 3
  /\ Len(runPlan.executableCommands) = 4

\* ------------------------------------------------------------------------ C23
\* The failure classes in the order the claim gives them, and "the text matches
\* the patterns of this class".
ClassPriority == <<"missing-env", "missing-deps", "port-conflict", "test-fail", "permission">>

MatchesClass(kind, hay) ==
  CASE kind = "missing-env" -> IsMissingEnv(hay)
    [] kind = "missing-deps" -> IsMissingDeps(hay)
    [] kind = "port-conflict" -> IsPortConflict(hay)
    [] kind = "test-fail" -> IsTestFail(hay)
    [] kind = "permission" -> IsPermission(hay)

\* C23: the class of every failed command is the earliest class, in the order
\* missing-env, missing-deps, port-conflict, test-fail, permission, whose patterns
\* the lowercased stderr and stdout match, and unknown when none matches; a text
\* with process.env and a cannot-find-module message is missing-env.
C23_ClassifierPriority ==
  (verifyInput # NoInput /\ ~verifyInput.success) =>
    LET hay == Haystack(verifyInput.stderr, verifyInput.stdout)
        matched == { i \in 1..Len(ClassPriority) : MatchesClass(ClassPriority[i], hay) }
        kind == verifyInput.classification
    IN /\ kind \in Range(ClassPriority) \cup {"unknown"}
       /\ matched = {} => kind = "unknown"
       /\ matched # {} =>
            kind = ClassPriority[CHOOSE i \in matched : \A j \in matched : i <= j]
       /\ ({"process.env", "cannot find module"} \subseteq hay) => kind = "missing-env"
       /\ (verdict # NoVerdict /\ ~verifyInput.timedOut) => verdict.evidence[4] = kind

\* A failed command whose stderr has both process.env and "Cannot find module" was
\* verified: its class is missing-env although missing-deps matches too.
C23_Witness ==
  /\ verdict # NoVerdict
  /\ ~verifyInput.success
  /\ ~verifyInput.timedOut
  /\ verifyInput.stderr = {"Cannot find module", "process.env"}
  /\ MatchesClass("missing-deps", Haystack(verifyInput.stderr, verifyInput.stdout))
  /\ verifyInput.classification = "missing-env"

\* Several later classes match at once, and nothing matches at all.
C23_WitnessLater ==
  /\ verdict # NoVerdict
  /\ ~verifyInput.success
  /\ verifyInput.stderr = {"assertion failed", "EACCES"}
  /\ verifyInput.classification = "test-fail"

C23_WitnessUnknown ==
  /\ verdict # NoVerdict
  /\ ~verifyInput.success
  /\ verifyInput.stderr = {"boom"}
  /\ verifyInput.classification = "unknown"

\* ------------------------------------------------------------------------ C24
\* No entry of the plan has run = true (the empty plan included).
NoneAuthorized == \A i \in 1..Len(plan) : ~plan[i].run

\* C24: when no command of the plan is authorized, the call returns at once with
\* attempted = false and no executions: no sandbox directory is ever created, the
\* repository is never copied and no process is spawned.
C24_NothingAuthorizedNothingDone ==
  NoneAuthorized =>
    /\ sandbox = "none"
    /\ pc \in {"entry", "done"}
    /\ procs = {}
    /\ executions = <<>>
    /\ pc = "done" =>
         /\ result.kind = "returned"
         /\ ~result.attempted
         /\ result.executions = <<>>

\* ------------------------------------------------------------------------ C26
\* C26: for every recorded execution, classification = "success", (exitCode = 0 and
\* not timedOut), verificationStatus # "failed" and probableFixes = <<>> are
\* equivalent; a failed execution has 1 or 2 probableFixes; and verificationStatus
\* is one of verified, partial, failed, never skipped.
C26_OutcomeFieldsConsistent ==
  \A k \in 1..Len(executions) :
    LET e == executions[k]
        ok == e.classification = "success"
    IN /\ ok <=> (e.exitCode = Num(0) /\ ~e.timedOut)
       /\ ok <=> (e.verificationStatus # "failed")
       /\ ok <=> (e.probableFixes = <<>>)
       /\ ~ok => Len(e.probableFixes) \in 1..2
       /\ e.verificationStatus \in {"verified", "partial", "failed"}

\* One run recorded a success, a failure of a known class with two fixes and a
\* failure of unknown class with one fix.
C26_Witness ==
  /\ \E k \in 1..Len(executions) :
       /\ executions[k].classification = "success"
       /\ executions[k].verificationStatus = "verified"
  /\ \E k \in 1..Len(executions) :
       /\ executions[k].classification = "unknown"
       /\ Len(executions[k].probableFixes) = 1
       /\ executions[k].timedOut
       /\ executions[k].exitCode = Num(0)

\* A failure of a known class carries two fixes.
C26_WitnessTwoFixes ==
  \E k \in 1..Len(executions) :
    /\ executions[k].classification = "permission"
    /\ Len(executions[k].probableFixes) = 2

\* ------------------------------------------------------------------------ C27
HelpOnlyEvidence == <<"help output only; runtime startup was not verified">>
HelpOnlySummary ==
  "Run attempt completed successfully; start command ran in help mode only (startup not verified)."
NotStronglyVerifiedSummary ==
  "Run attempt completed successfully; startup signal was not strongly verified."

\* A start-step execution in help mode that exited successfully.
SuccessfulStartHelp(e) ==
  e.step = "start" /\ e.helpMode /\ e.exitCode = Num(0) /\ ~e.timedOut

\* Every such execution is partial, with the help-only evidence, whatever it printed.
StartHelpIsPartial ==
  \A k \in 1..Len(executions) :
    SuccessfulStartHelp(executions[k]) =>
      /\ executions[k].verificationStatus = "partial"
      /\ executions[k].verificationEvidence = HelpOnlyEvidence

\* The call returned a success summary: something ran and nothing failed.
ReturnedSuccessSummary ==
  /\ Returned
  /\ result.attempted
  /\ \A k \in 1..Len(result.executions) : result.executions[k].classification = "success"

StartPositions == { k \in 1..Len(executions) : executions[k].step = "start" }

\* C27 (as stated): a start-step command in help mode that exits successfully is
\* partial with the evidence that runtime startup was not verified, never verified,
\* and the success summary of a run with a start execution in help mode says that
\* startup was not verified.
C27_StartHelpNeverVerified ==
  /\ StartHelpIsPartial
  /\ (ReturnedSuccessSummary /\ \E k \in StartPositions : executions[k].helpMode) =>
       result.summary.text \in {HelpOnlySummary, NotStronglyVerifiedSummary}

\* C27 (amended): the same verdict for every successful start-step help-mode
\* command, and the success summary says "help mode only (startup not verified)"
\* exactly when the first start-step execution of the run was in help mode.
C27_FirstStartDecidesSummary ==
  /\ StartHelpIsPartial
  /\ (ReturnedSuccessSummary /\ StartPositions # {}) =>
       LET first == CHOOSE k \in StartPositions : \A j \in StartPositions : k <= j
       IN executions[first].helpMode <=> (result.summary.text = HelpOnlySummary)

\* A help-mode start command printed a listening address, exited with 0 and was
\* recorded partial; the run returned the help-mode summary.
C27_Witness ==
  /\ ReturnedSuccessSummary
  /\ \E k \in StartPositions :
       /\ k = 1
       /\ SuccessfulStartHelp(executions[k])
       /\ "localhost:3000" \in executions[k].stdoutSnippet
       /\ executions[k].verificationStatus = "partial"
  /\ result.summary.text = HelpOnlySummary

\* A verified plain start came first and a help-mode start followed: the summary
\* reports the verification signal of the first.
C27_WitnessLaterHelp ==
  /\ ReturnedSuccessSummary
  /\ \E j, k \in StartPositions :
       /\ j < k
       /\ ~executions[j].helpMode
       /\ executions[j].verificationStatus = "verified"
       /\ SuccessfulStartHelp(executions[k])
  /\ result.summary.text # HelpOnlySummary

\* ------------------------------------------------------------------------ C30
\* The process of the resolved call ended without having been signalled: it exited
\* on its own, before the timeout timer fired (a timer that fires on a running
\* process delivers SIGTERM).
ExitedOnItsOwn == signals = <<>> /\ child = "closed"

\* C30: timedOut = true is reported only if the timer fired while the process was
\* still running; a process that exits on its own with code 0 before the timer
\* fires is reported with timedOut = false and recorded as a success; no result has
\* exitCode = 0 together with timedOut = true.
C30_TimedOutOnlyWhileRunning ==
  /\ resolved # Unresolved =>
       /\ resolved.timedOut => "SIGTERM" \in Range(signals)
       /\ (ExitedOnItsOwn /\ resolved.exitCode = Num(0)) => ~resolved.timedOut
       /\ ~(resolved.exitCode = Num(0) /\ resolved.timedOut)
  /\ \A k \in 1..Len(executions) :
       ~(executions[k].exitCode = Num(0) /\ executions[k].timedOut)

\* ------------------------------------------------------------------------ C28
CountOf(type) == Len(SelectSeq(events, LAMBDA e : e.type = type))

\* The event at position p may follow what came before it: a start opens the next
\* command after the end (or fallback) of the one before; progress and end belong
\* to the command that was started and has not ended; a fallback follows the end
\* of its command.
WellPlaced(p) ==
  LET e == events[p]
      startsBefore == Len(SelectSeq(SubSeq(events, 1, p - 1), LAMBDA x : x.type = "start"))
  IN CASE e.type = "start" ->
            /\ p > 1 => events[p - 1].type \in {"end", "fallback"}
            /\ e.index = startsBefore + 1
       [] e.type = "progress" ->
            /\ p > 1
            /\ events[p - 1].type \in {"start", "progress"}
            /\ e.index = events[p - 1].index
       [] e.type = "end" ->
            /\ p > 1
            /\ events[p - 1].type \in {"start", "progress"}
            /\ e.index = events[p - 1].index
       [] e.type = "fallback" ->
            /\ p > 1
            /\ events[p - 1].type = "end"
            /\ e.index = events[p - 1].index
       [] OTHER -> FALSE

\* C28: the events given to onCommandEvent are, for each executed command, one
\* start, then any number of progress, then one end, then at most one fallback,
\* all before the start of the next command, with no progress after the end; as
\* many end events as executions, and as many start events once the call has
\* returned; and every event has 1 <= index <= total = number of run=true entries.
C28_EventProtocol ==
  /\ \A p \in 1..Len(events) :
       /\ WellPlaced(p)
       /\ events[p].total = TotalRunnable(plan)
       /\ 1 <= events[p].index
       /\ events[p].index <= events[p].total
  /\ CountOf("end") = Len(executions)
  /\ CountOf("start") \in {Len(executions), Len(executions) + 1}
  /\ Returned =>
       /\ CountOf("start") = Len(result.executions)
       /\ CountOf("end") = Len(result.executions)

\* A returned run whose callback saw a progress event between a start and its end,
\* a fallback after the end of a timed-out start probe, and a second command.
C28_Witness ==
  /\ Returned
  /\ CountOf("progress") > 0
  /\ CountOf("fallback") = 1
  /\ CountOf("start") = 2
  /\ CountOf("end") = 2

\* An entry with run = false came first: the one command run has index 1 of 1.
C28_WitnessSkipped ==
  /\ Returned
  /\ Len(plan) = 2
  /\ ~plan[1].run
  /\ CountOf("end") = 1
  /\ events[1] = Event("start", 1, 1)

\* ------------------------------------------------------------------------ C25
RECURSIVE SumSlept(_)
SumSlept(calls) ==
  IF calls = <<>> THEN 0 ELSE calls[Len(calls)].slept + SumSlept(SubSeq(calls, 1, Len(calls) - 1))

\* C25: after any sequence of enforceStageMinimum / enforceThinkingMinimum /
\* enforceSince calls since construction or resetRun, usedArtificialDelayMs is at
\* most maxArtificialDelayMs, and each call slept exactly
\* min(max(0, minVisibleMs - actualMs), remaining budget), and 0 under
\* reducedMotion.
C25_BudgetCap ==
  scheduler.constructed =>
    /\ artificialDelayUsedMs <= scheduler.maxArtificialDelayMs
    /\ artificialDelayUsedMs = SumSlept(enforced)
    /\ \A k \in 1..Len(enforced) :
         LET call == enforced[k]
             remaining == scheduler.maxArtificialDelayMs - SumSlept(SubSeq(enforced, 1, k - 1))
         IN /\ call.slept = IF scheduler.reducedMotion THEN 0
                            ELSE Min(Max(0, call.minVisibleMs - call.actualMs), remaining)
            /\ call.artificialDelayMs = call.slept
            /\ call.totalVisibleMs = call.actualMs + call.slept

\* Three instant stages with the default minimum above the cap: the first sleeps
\* the whole cap, the next two do not sleep (300 and 120 ms in the tests).
C25_Witness ==
  /\ scheduler.constructed
  /\ ~scheduler.reducedMotion
  /\ scheduler.minStageMs = 3
  /\ scheduler.maxArtificialDelayMs = 2
  /\ Len(enforced) = 3
  /\ \A k \in 1..3 : enforced[k].actualMs = 0 /\ enforced[k].minVisibleMs = 3
  /\ enforced[1].slept = 2
  /\ enforced[2].slept = 0
  /\ enforced[3].slept = 0
  /\ artificialDelayUsedMs = 2

\* The budget is spent over two calls, the second cut short by what remains.
C25_WitnessPartial ==
  /\ scheduler.constructed
  /\ Len(enforced) = 2
  /\ enforced[1].slept = 1
  /\ enforced[2].slept = 1
  /\ enforced[2].minVisibleMs - enforced[2].actualMs = 3
  /\ artificialDelayUsedMs = scheduler.maxArtificialDelayMs

====
